---------------------------- MODULE Spec2Model ----------------------------
(***************************************************************************)
(* A model of the riff / riffu crate: the chunk builder                    *)
(* (src/src/builder/riff.rs), the eager reader (src/src/eager/riff.rs) and *)
(* the stream writer and reader and the identifiers ChunkId                *)
(* (src/src/lib.rs), and the lazy reader (src/src/lazy/riff.rs).           *)
(*                                                                         *)
(* Bytes are integers 0..255, byte strings are sequences of bytes.  A      *)
(* Rust Option<FourCC> is a sequence of length 0 (None) or 1 (Some).       *)
(***************************************************************************)
EXTENDS Integers, Sequences, FiniteSets, TLC

VARIABLES
    riff,      \* builder: the RiffBuilder under construction
    pool,      \* builder: ChunkBuilder values owned by the caller, newest last
    last,      \* builder: the last builder call and its input
    added,     \* builder: the chunks handed to RiffBuilder::add_chunk, in call order
    stream,    \* writer: the bytes of the Cursor<Vec<u8>> written by ChunkContents::write
    wpos,      \* writer: the position of the cursor
    wret,      \* writer: the last write (its input, start position, return value), and their number
    readback,  \* writer: the tree read back from the stream after the last write
    file,      \* eager: the bytes of the file on disk
    tree,      \* eager: the ChunkContents tree the file was written from
    mut,       \* eager: how the written bytes were damaged before loading
    pc,        \* eager: the caller's position
    ram,       \* eager: the result of RiffRam::from_file
    cur,       \* eager: the result of the last conversion to a ChunkRam
    curTree,   \* eager: the node of tree that cur was written from
    it,        \* eager: the ChunkRamIter
    item,      \* eager: what the last next() returned
    yielded,   \* eager: the items this iterator has returned so far
    depth,     \* eager: how many containers the caller has descended into
    raw,       \* eager: the result of the last get_raw_child
    path,      \* eager: the index of each child the caller descended into
    dpc,       \* lazy: the caller's position
    disk,      \* lazy: the result of RiffDisk::from_file
    dcur,      \* lazy: the result of the last conversion to a ChunkDisk
    dit,       \* lazy: the ChunkDiskIter
    ditem,     \* lazy: what the last next() returned
    dyielded,  \* lazy: the items this iterator has returned so far
    dpath,     \* lazy: the index of each child the caller descended into
    draw,      \* lazy: the result of the last get_raw_child
    text,      \* identifiers: the text last given to ChunkId::new
    cid,       \* identifiers: the ChunkId last constructed, or the error
    view,      \* identifiers: the result of the last ChunkId::as_str
    big,       \* sizes: the builders made of contents given by their length only
    conv,      \* eager: the result of the last ChunkRamContent::try_from
    dconv,     \* lazy: the result of the last ChunkDiskContent::try_from
    stack,     \* eager: the iterators of the containers the caller descended from
    below,     \* eager: whether an iteration the caller returned from ended in an Err
    sit,       \* stream reader: the chunk last read and the ChunkIter made from it
    sw,        \* sizes: the last ChunkContents::write of a leaf given by its length
    off        \* offsets: a ChunkDisk given by its numbers, and its ChunkDiskIter

builderVars == <<riff, pool, last, added>>
writerVars == <<stream, wpos, wret, readback>>
eagerVars == <<file, tree, mut, pc, ram, cur, curTree, it, item, yielded, depth, raw, path>>
lazyVars == <<dpc, disk, dcur, dit, ditem, dyielded, dpath, draw>>
calcVars == <<text, cid, view, big>>
extraVars == <<conv, dconv, stack, below, sit, sw, off>>
vars == <<riff, pool, last, added, stream, wpos, wret, readback,
          file, tree, mut, pc, ram, cur, curTree, it, item, yielded, depth, raw, path,
          dpc, disk, dcur, dit, ditem, dyielded, dpath, draw, text, cid, view, big,
          conv, dconv, stack, below, sit, sw, off>>

---------------------------------------------------------------------------
(* Bounds of the model. *)

\* Most chunks a builder run constructs
MaxNodes == 3
\* Longest leaf content
MaxLeafLen == 1
\* Most writes to the stream in one run
MaxWrites == 2
\* Most chunks below the root of a file the eager reader is given
MaxTreeNodes == 3

---------------------------------------------------------------------------
(* Bytes, identifiers, little-endian lengths. *)

RIFF_ID == <<82, 73, 70, 70>>
LIST_ID == <<76, 73, 83, 84>>
SEQT_ID == <<115, 101, 113, 116>>

\* "test", "tst1": leaf identifiers of the tests
TEST_ID == <<116, 101, 115, 116>>
TST1_ID == <<116, 115, 116, 49>>
\* "smpl": the form type of the tests
SMPL_ID == <<115, 109, 112, 108>>

LeafIds == {TEST_ID, TST1_ID}
FormTypes == {SMPL_ID}

\* The content of a leaf of length n: 255, 254, ... (never the pad byte 0)
Content(n) == [i \in 1..n |-> 256 - i]
Contents == {Content(n) : n \in 0..MaxLeafLen}

\* u32::to_le_bytes
to_le_bytes(n) ==
    <<n % 256, (n \div 256) % 256, (n \div 65536) % 256, (n \div 16777216) % 256>>

\* u32::from_le_bytes
from_le_bytes(b) == b[1] + 256 * b[2] + 65536 * b[3] + 16777216 * b[4]

RECURSIVE SumSeq(_)
SumSeq(s) == IF s = <<>> THEN 0 ELSE s[1] + SumSeq(Tail(s))

RECURSIVE Flatten(_)
Flatten(ss) == IF ss = <<>> THEN <<>> ELSE ss[1] \o Flatten(Tail(ss))

---------------------------------------------------------------------------
(* The builder: src/src/builder/riff.rs *)

\* enum ChunkData
RawData(vec) == [kind |-> "RawData", raw |-> vec, list |-> <<>>]
ChunkList(vec) == [kind |-> "ChunkList", raw |-> <<>>, list |-> vec]

\* ChunkBuilder::calculate_payload
calculate_payload(data, offset) ==
    LET payload_len ==
            IF data.kind = "ChunkList"
            THEN SumSeq([i \in 1..Len(data.list) |->
                    IF data.list[i].chunk_type = <<>>
                    THEN data.list[i].payload_len + 8
                    ELSE data.list[i].payload_len + 4 + 8])
            ELSE Len(data.raw)
    IN  payload_len + offset

\* fit_data without the push of the pad byte
fit_data_nopad(data) == data

\* ChunkBuilder::fit_data
fit_data(data) ==
    IF data.kind = "RawData"
    THEN IF Len(data.raw) % 2 = 1 THEN RawData(Append(data.raw, 0)) ELSE data
    ELSE data

\* ChunkBuilder::new_notype
new_notype(id, data) ==
    [chunk_id |-> id,
     payload_len |-> calculate_payload(data, 0),
     chunk_type |-> <<>>,
     data |-> fit_data(data)]

\* ChunkBuilder::new_type
new_type(id, chunk_type, data) ==
    [chunk_id |-> id,
     payload_len |-> calculate_payload(data, 4),
     chunk_type |-> <<chunk_type>>,
     data |-> fit_data(data)]

\* ChunkBuilder::add_chunk: Ok(self) or Err(MismatchChunkAdded)
ChunkBuilder_add_chunk(self, chunk) ==
    LET len1 == self.payload_len + 8
        len2 == IF chunk.chunk_type # <<>> THEN len1 + 4 ELSE len1
    IN  IF self.data.kind = "RawData"
        THEN [ok |-> FALSE, err |-> "MismatchChunkAdded", chunk |-> self]
        ELSE [ok |-> TRUE, err |-> "",
              chunk |-> [self EXCEPT
                !.payload_len = len2 + SumSeq([i \in 1..Len(self.data.list) |->
                                    self.data.list[i].payload_len + 8]),
                !.data = ChunkList(Append(self.data.list, chunk))]]

\* to_bytes that writes the chunk type before the payload length
RECURSIVE ChunkBuilder_to_bytes_type_first(_)
ChunkBuilder_to_bytes_type_first(self) ==
    self.chunk_id
    \o (IF self.chunk_type # <<>> THEN self.chunk_type[1] ELSE <<>>)
    \o to_le_bytes(self.payload_len)
    \o (IF self.data.kind = "RawData"
        THEN self.data.raw
        ELSE Flatten([i \in 1..Len(self.data.list) |->
                        ChunkBuilder_to_bytes_type_first(self.data.list[i])]))

\* ChunkBuilder::to_bytes: the bytes appended to result
RECURSIVE ChunkBuilder_to_bytes(_)
ChunkBuilder_to_bytes(self) ==
    self.chunk_id \o to_le_bytes(self.payload_len)
    \o (IF self.chunk_type # <<>> THEN self.chunk_type[1] ELSE <<>>)
    \o (IF self.data.kind = "RawData"
        THEN self.data.raw
        ELSE Flatten([i \in 1..Len(self.data.list) |->
                        ChunkBuilder_to_bytes(self.data.list[i])]))

\* RiffBuilder::new
RiffBuilder_new(chunk_type) ==
    [payload_len |-> 4, chunk_type |-> chunk_type, data |-> <<>>]

\* RiffBuilder::to_bytes
RiffBuilder_to_bytes(self) ==
    RIFF_ID \o to_le_bytes(self.payload_len) \o self.chunk_type
    \o Flatten([i \in 1..Len(self.data) |-> ChunkBuilder_to_bytes(self.data[i])])

\* RiffBuilder::add_chunk
RiffBuilder_add_chunk(self, chunk) ==
    LET len1 == self.payload_len + 8
        len2 == IF chunk.chunk_type # <<>> THEN len1 + 4 ELSE len1
        len3 == IF chunk.data.kind = "RawData"
                THEN len2 + Len(chunk.data.raw)
                ELSE len2 + SumSeq([i \in 1..Len(chunk.data.list) |->
                                chunk.data.list[i].payload_len + 8])
    IN  [self EXCEPT !.payload_len = len3, !.data = Append(self.data, chunk)]

\* The number of ChunkBuilder values in a tree
RECURSIVE Nodes(_)
Nodes(c) ==
    1 + (IF c.data.kind = "RawData" THEN 0
         ELSE SumSeq([i \in 1..Len(c.data.list) |-> Nodes(c.data.list[i])]))

TotalNodes ==
    SumSeq([i \in 1..Len(pool) |-> Nodes(pool[i])])
    + SumSeq([i \in 1..Len(riff.data) |-> Nodes(riff.data[i])])

---------------------------------------------------------------------------
(* The stream writer: ChunkContents::write, src/src/lib.rs *)

\* enum ChunkContents
CC_RawData(id, data) ==
    [kind |-> "RawData", id |-> id, type |-> <<>>, data |-> data, children |-> <<>>]
CC_Children(id, chunk_type, children) ==
    [kind |-> "Children", id |-> id, type |-> chunk_type, data |-> <<>>,
     children |-> children]
CC_ChildrenNoType(id, children) ==
    [kind |-> "ChildrenNoType", id |-> id, type |-> <<>>, data |-> <<>>,
     children |-> children]

\* n > u32::MAX, computed without leaving TLC's integers
ExceedsU32(n) == n \div 65536 > 65535

\* Write::write_all on a Cursor<Vec<u8>>: overwrite at the position, growing the
\* vector (zero-filled up to the position) when needed
write_all(w, bytes) ==
    LET p == w.pos
        n == Len(bytes)
        old == w.buf
        newLen == IF p + n > Len(old) THEN p + n ELSE Len(old)
    IN  [buf |-> [i \in 1..newLen |->
                    IF i > p /\ i <= p + n THEN bytes[i - p]
                    ELSE IF i <= Len(old) THEN old[i] ELSE 0],
         pos |-> p + n]

\* a seek that leaves the position where it is
seek_nowhere(w, p) == w

\* Seek::seek(SeekFrom::Start(p))
seek(w, p) == [w EXCEPT !.pos = p]

RECURSIVE ChunkContents_write(_, _)
RECURSIVE write_children(_, _, _)

\* the loop "for child in children { total_len = total_len + child.write(writer)? }"
write_children(children, w, total_len) ==
    IF children = <<>>
    THEN [ok |-> TRUE, w |-> w, ret |-> total_len]
    ELSE LET r == ChunkContents_write(children[1], w)
         IN  IF ~r.ok THEN r
             ELSE write_children(Tail(children), r.w, total_len + r.ret)

\* ChunkContents::write: Ok(bytes written) or Err("Data too big")
ChunkContents_write(self, w) ==
    IF self.kind = "RawData"
    THEN IF ExceedsU32(Len(self.data))
         THEN [ok |-> FALSE, w |-> w, ret |-> 0]
         ELSE LET len == Len(self.data)
                  w1 == write_all(w, self.id)
                  w2 == write_all(w1, to_le_bytes(len))
                  w3 == write_all(w2, self.data)
                  w4 == IF len % 2 # 0 THEN write_all(w3, <<0>>) ELSE w3
              IN  [ok |-> TRUE, w |-> w4, ret |-> 8 + len + (len % 2)]
    ELSE LET w1 == write_all(w, self.id)
             len_pos == w1.pos
             w2 == write_all(w1, <<0, 0, 0, 0>>)
             w3 == IF self.kind = "Children" THEN write_all(w2, self.type) ELSE w2
             r == write_children(self.children, w3,
                                 IF self.kind = "Children" THEN 4 ELSE 0)
         IN  IF ~r.ok THEN r
             ELSE IF ExceedsU32(r.ret) THEN [ok |-> FALSE, w |-> r.w, ret |-> 0]
             ELSE LET end_pos == r.w.pos
                      w5 == write_all(seek(r.w, len_pos), to_le_bytes(r.ret))
                  IN  [ok |-> TRUE, w |-> seek(w5, end_pos),
                       ret |-> 8 + r.ret + (r.ret % 2)]

\* A fresh Cursor over an empty vector
EmptyCursor == [buf |-> <<>>, pos |-> 0]

\* Rust's data[a..b]
Slice(data, a, b) == SubSeq(data, a + 1, b)
\* Rust's data[a..]
SliceFrom(data, a) == SubSeq(data, a + 1, Len(data))

---------------------------------------------------------------------------
(* The stream reader: Chunk and ChunkIter of src/src/lib.rs, and the       *)
(* recursive reader read_chunk of src/tests/integration_tests.rs.          *)

\* struct Chunk
Chunk(pos, id, len) == [pos |-> pos, id |-> id, len |-> len]

\* An io::Result<Chunk>
NoChunk == Chunk(0, <<>>, 0)

\* Chunk::read: seek to pos, read_exact the id and the length
Chunk_read(stream_, pos) ==
    IF pos + 8 <= Len(stream_)
    THEN [ok |-> TRUE,
          chunk |-> Chunk(pos, Slice(stream_, pos, pos + 4),
                          from_le_bytes(Slice(stream_, pos + 4, pos + 8)))]
    ELSE [ok |-> FALSE, chunk |-> NoChunk]

\* Chunk::read_type
Chunk_read_type(self, stream_) ==
    IF self.pos + 12 <= Len(stream_)
    THEN [ok |-> TRUE, data |-> Slice(stream_, self.pos + 8, self.pos + 12)]
    ELSE [ok |-> FALSE, data |-> <<>>]

\* Chunk::read_contents
Chunk_read_contents(self, stream_) ==
    IF self.pos + 8 + self.len <= Len(stream_)
    THEN [ok |-> TRUE, data |-> Slice(stream_, self.pos + 8, self.pos + 8 + self.len)]
    ELSE [ok |-> FALSE, data |-> <<>>]

\* struct ChunkIter
ChunkIter(end, cur_) == [end |-> end, cur |-> cur_]

\* Chunk::iter
Chunk_iter(self) == ChunkIter(self.pos + 4 + self.len, self.pos + 12)

\* Chunk::iter_no_type
Chunk_iter_no_type(self) == ChunkIter(self.pos + 4 + self.len, self.pos + 8)

\* next() of ChunkIter that steps over no pad byte
ChunkIter_next_nopad(self, stream_) ==
    IF self.cur >= self.end THEN [some |-> FALSE, chunk |-> NoChunk, it |-> self]
    ELSE LET r == Chunk_read(stream_, self.cur)
         IN  IF r.ok
             THEN [some |-> TRUE, chunk |-> r.chunk,
                   it |-> [self EXCEPT !.cur = self.cur + r.chunk.len + 8]]
             ELSE [some |-> FALSE, chunk |-> NoChunk, it |-> self]

\* ChunkIter::next: None, or Some(chunk) and the iterator it leaves
ChunkIter_next(self, stream_) ==
    IF self.cur >= self.end THEN [some |-> FALSE, chunk |-> NoChunk, it |-> self]
    ELSE LET r == Chunk_read(stream_, self.cur)
         IN  IF r.ok
             THEN [some |-> TRUE, chunk |-> r.chunk,
                   it |-> [self EXCEPT !.cur =
                              self.cur + r.chunk.len + 8 + (r.chunk.len % 2)]]
             ELSE [some |-> FALSE, chunk |-> NoChunk, it |-> self]

\* read_items: the chunks the iterator yields
RECURSIVE read_items(_, _)
read_items(iter, stream_) ==
    LET r == ChunkIter_next(iter, stream_)
    IN  IF r.some THEN <<r.chunk>> \o read_items(r.it, stream_) ELSE <<>>

\* read_chunk: res is "ok" or "panic" (unwrap of a failed read)
RECURSIVE read_chunk(_, _)
RECURSIVE read_chunks(_, _)

\* the loop "for child in children { children_contents.push(read_chunk(&child, file)) }"
read_chunks(children, stream_) ==
    IF children = <<>> THEN [res |-> "ok", list |-> <<>>]
    ELSE LET c == read_chunk(children[1], stream_)
             rest == read_chunks(Tail(children), stream_)
         IN  IF c.res # "ok" \/ rest.res # "ok" THEN [res |-> "panic", list |-> <<>>]
             ELSE [res |-> "ok", list |-> <<c.contents>> \o rest.list]

read_chunk(chunk, stream_) ==
    LET id == chunk.id
        panic == [res |-> "panic", contents |-> CC_RawData(<<>>, <<>>)]
    IN  IF id = RIFF_ID \/ id = LIST_ID
        THEN LET chunk_type == Chunk_read_type(chunk, stream_)
                 kids == read_chunks(read_items(Chunk_iter(chunk), stream_), stream_)
             IN  IF ~chunk_type.ok \/ kids.res # "ok" THEN panic
                 ELSE [res |-> "ok",
                       contents |-> CC_Children(id, chunk_type.data, kids.list)]
        ELSE IF id = SEQT_ID
        THEN LET kids == read_chunks(read_items(Chunk_iter_no_type(chunk), stream_),
                                     stream_)
             IN  IF kids.res # "ok" THEN panic
                 ELSE [res |-> "ok", contents |-> CC_ChildrenNoType(id, kids.list)]
        ELSE LET contents == Chunk_read_contents(chunk, stream_)
             IN  IF ~contents.ok THEN panic
                 ELSE [res |-> "ok", contents |-> CC_RawData(id, contents.data)]

---------------------------------------------------------------------------
(* The eager reader: src/src/eager/riff.rs *)

\* std::str::from_utf8 succeeds: the bytes are well-formed UTF-8
RECURSIVE IsUtf8(_)
IsUtf8(b) ==
    LET Cont(i) == i <= Len(b) /\ b[i] >= 128 /\ b[i] <= 191
        Rest(n) == IsUtf8(SubSeq(b, n + 1, Len(b)))
    IN  IF b = <<>> THEN TRUE
        ELSE IF b[1] < 128 THEN Rest(1)
        ELSE IF b[1] >= 194 /\ b[1] <= 223 THEN Cont(2) /\ Rest(2)
        ELSE IF b[1] = 224 THEN Cont(2) /\ b[2] >= 160 /\ Cont(3) /\ Rest(3)
        ELSE IF b[1] = 237 THEN Cont(2) /\ b[2] <= 159 /\ Cont(3) /\ Rest(3)
        ELSE IF b[1] >= 225 /\ b[1] <= 239 THEN Cont(2) /\ Cont(3) /\ Rest(3)
        ELSE IF b[1] = 240 THEN Cont(2) /\ b[2] >= 144 /\ Cont(3) /\ Cont(4) /\ Rest(4)
        ELSE IF b[1] >= 241 /\ b[1] <= 243 THEN Cont(2) /\ Cont(3) /\ Cont(4) /\ Rest(4)
        ELSE IF b[1] = 244 THEN Cont(2) /\ b[2] <= 143 /\ Cont(3) /\ Cont(4) /\ Rest(4)
        ELSE FALSE

\* FourCC::as_str: Ok(the text) or Err(Utf8Error)
FourCC_as_str(fourcc) ==
    IF IsUtf8(fourcc) THEN [ok |-> TRUE, str |-> fourcc]
    ELSE [ok |-> FALSE, str |-> <<>>]

\* A RiffResult that carries bytes: Ok(data) or Err(err)
Ok(data) == [ok |-> TRUE, err |-> "", data |-> data]
Err(err) == [ok |-> FALSE, err |-> err, data |-> <<>>]

\* from_file that asks only for the 4 bytes of the identifier
RiffRam_from_file_4(data) ==
    IF Len(data) >= 4
    THEN LET id == FourCC_as_str(Slice(data, 0, 4))
         IN  IF ~id.ok THEN Err("Utf8Error")
             ELSE IF id.str = RIFF_ID THEN Ok(data)
             ELSE Err("InvalidRiffHeader")
    ELSE Err("ChunkTooSmall")

\* RiffRam::from_file, given the bytes std::fs::read returned
RiffRam_from_file(data) ==
    IF Len(data) >= 8
    THEN LET id == FourCC_as_str(Slice(data, 0, 4))
         IN  IF ~id.ok THEN Err("Utf8Error")
             ELSE IF id.str = RIFF_ID THEN Ok(data)
             ELSE Err("InvalidRiffHeader")
    ELSE Err("ChunkTooSmall")

\* ChunkRam::id
ChunkRam_id(data) == Slice(data, 0, 4)

\* ChunkRam::payload_len
ChunkRam_payload_len(data) == from_le_bytes(Slice(data, 4, 8))

\* from_raw_u8 that accepts data longer than the payload length asks for
from_raw_u8_at_least(data) ==
    IF Len(data) >= 8
    THEN IF Len(data) >= from_le_bytes(Slice(data, 4, 8)) + 8
         THEN Ok(data)
         ELSE Err("PayloadLenMismatch")
    ELSE Err("ChunkTooSmall")

\* ChunkRam::from_raw_u8
from_raw_u8(data) ==
    IF Len(data) >= 8
    THEN IF Len(data) = ChunkRam_payload_len(data) + 8
         THEN Ok(data)
         ELSE Err("PayloadLenMismatch")
    ELSE Err("ChunkTooSmall")

\* impl TryFrom<&RiffRam> for ChunkRam
ChunkRam_try_from(value) == from_raw_u8(value.data)

\* the match on self.id().as_str() of get_raw_child and iter: Ok(RIFF_ID) | Ok(LIST_ID)
IsRiffOrList(data) ==
    LET s == FourCC_as_str(ChunkRam_id(data))
    IN  s.ok /\ s.str \in {RIFF_ID, LIST_ID}

\* ChunkRam::chunk_type
ChunkRam_chunk_type(data) ==
    IF Len(data) >= 12 THEN Ok(Slice(data, 8, 12))
    ELSE Err("ChunkTooSmallForChunkType")

\* ChunkRam::get_raw_child; res is "ok", "err" or "panic" (a slice out of range)
get_raw_child(data) ==
    LET offset == IF IsRiffOrList(data) THEN 12 ELSE 8
    IN  IF Len(data) >= offset
        THEN IF offset + ChunkRam_payload_len(data) <= Len(data)
             THEN [res |-> "ok", err |-> "",
                   data |-> Slice(data, offset, offset + ChunkRam_payload_len(data))]
             ELSE [res |-> "panic", err |-> "", data |-> <<>>]
        ELSE [res |-> "err", err |-> "PayloadLenMismatch", data |-> <<>>]

\* struct ChunkRamIter
ChunkRamIter(cursor, data, error_occurred) ==
    [cursor |-> cursor, data |-> data, error_occurred |-> error_occurred]

\* ChunkRam::iter with the children of every chunk taken from offset 8
ChunkRam_iter_from_8(data) ==
    [res |-> "ok", it |-> ChunkRamIter(0, SliceFrom(data, 8), FALSE)]

\* ChunkRam::iter; res is "ok" or "panic" (a slice out of range)
ChunkRam_iter(data) ==
    IF IsRiffOrList(data)
    THEN IF Len(data) >= 12
         THEN [res |-> "ok", it |-> ChunkRamIter(0, SliceFrom(data, 12), FALSE)]
         ELSE [res |-> "panic", it |-> ChunkRamIter(0, <<>>, FALSE)]
    ELSE [res |-> "ok", it |-> ChunkRamIter(0, SliceFrom(data, 8), FALSE)]

\* fn payload_length
payload_length(data) ==
    IF Len(data) >= 8 THEN [ok |-> TRUE, err |-> "", len |-> from_le_bytes(Slice(data, 4, 8))]
    ELSE [ok |-> FALSE, err |-> "ChunkTooSmall", len |-> 0]

\* What next() returns, with the iterator it leaves: res is "none" (None),
\* "ok" (Some(Ok(chunk)), data the chunk's slice), "err" (Some(Err(err))) or
\* "panic"; at is the cursor the item was read at
NextResult(res, err, data, at, iter) ==
    [res |-> res, err |-> err, data |-> data, at |-> at, it |-> iter]

\* the cursor moved past the chunk, without its pad byte
advance_nopad(cursor, payload_len) == cursor + 8 + payload_len

\* the cursor moved past the chunk and its pad byte:
\* self.cursor + 8 + chunk.payload_len() + (chunk.payload_len() % 2)
advance(cursor, payload_len) == cursor + 8 + payload_len + (payload_len % 2)

\* ChunkRamIter::next
ChunkRamIter_next(self) ==
    IF self.error_occurred \/ self.cursor = Len(self.data)
    THEN NextResult("none", "", <<>>, self.cursor, self)
    ELSE LET cursor == self.cursor
             failed == [self EXCEPT !.error_occurred = TRUE]
         IN  IF cursor > Len(self.data)
             THEN NextResult("panic", "", <<>>, cursor, self)
             ELSE LET pl == payload_length(SliceFrom(self.data, cursor))
                  IN  IF ~pl.ok
                      THEN NextResult("err", pl.err, <<>>, cursor, failed)
                      ELSE IF Len(self.data) >= cursor + 8 + pl.len
                      THEN LET chunk == from_raw_u8(
                                   Slice(self.data, cursor, cursor + 8 + pl.len))
                           IN  IF chunk.ok
                               THEN NextResult("ok", "", chunk.data, cursor,
                                      [self EXCEPT !.cursor =
                                          advance(self.cursor,
                                                  ChunkRam_payload_len(chunk.data))])
                               ELSE NextResult("err", chunk.err, <<>>, cursor, failed)
                      ELSE NextResult("err", "ChunkTooSmall", <<>>, cursor, failed)

\* The result of a conversion to ChunkRamContent: res is "ok", "err" or "panic"
ContentResult(res, err, content) == [res |-> res, err |-> err, content |-> content]

RECURSIVE ChunkRamContent_try_from(_)
RECURSIVE collect_children(_, _)

\* chunk.iter().map(|child| ChunkRamContent::try_from(child?)).collect::<RiffResult<Vec<_>>>()
collect_children(iter, acc) ==
    LET r == ChunkRamIter_next(iter)
    IN  IF r.res = "none" THEN ContentResult("ok", "", acc)
        ELSE IF r.res = "panic" THEN ContentResult("panic", "", <<>>)
        ELSE IF r.res = "err" THEN ContentResult("err", r.err, <<>>)
        ELSE LET c == ChunkRamContent_try_from(r.data)
             IN  IF c.res # "ok" THEN c
                 ELSE collect_children(r.it, Append(acc, c.content))

\* impl TryFrom<ChunkRam> for ChunkRamContent
ChunkRamContent_try_from(chunk) ==
    LET s == FourCC_as_str(ChunkRam_id(chunk))
    IN  IF s.ok /\ s.str \in {RIFF_ID, LIST_ID}
        THEN LET chunk_type == ChunkRam_chunk_type(chunk)
                 iter == ChunkRam_iter(chunk)
             IN  IF ~chunk_type.ok THEN ContentResult("err", chunk_type.err, <<>>)
                 ELSE IF iter.res = "panic" THEN ContentResult("panic", "", <<>>)
                 ELSE LET kids == collect_children(iter.it, <<>>)
                      IN  IF kids.res # "ok" THEN kids
                          ELSE ContentResult("ok", "",
                                  CC_Children(ChunkRam_id(chunk), chunk_type.data,
                                              kids.content))
        ELSE IF s.ok /\ s.str = SEQT_ID
        THEN LET iter == ChunkRam_iter(chunk)
             IN  IF iter.res = "panic" THEN ContentResult("panic", "", <<>>)
                 ELSE LET kids == collect_children(iter.it, <<>>)
                      IN  IF kids.res # "ok" THEN kids
                          ELSE ContentResult("ok", "",
                                  CC_ChildrenNoType(ChunkRam_id(chunk), kids.content))
        ELSE LET contents == get_raw_child(chunk)
             IN  IF contents.res # "ok" THEN ContentResult(contents.res, contents.err, <<>>)
                 ELSE ContentResult("ok", "",
                          CC_RawData(ChunkRam_id(chunk), contents.data))

---------------------------------------------------------------------------
(* Identifiers: ChunkId of src/src/lib.rs.  A text (&str) is the sequence  *)
(* of its Unicode scalar values; its bytes are its UTF-8 encoding.         *)

\* The UTF-8 encoding of one scalar value
Utf8Char(c) ==
    IF c < 128 THEN <<c>>
    ELSE IF c < 2048 THEN <<192 + (c \div 64), 128 + (c % 64)>>
    ELSE IF c < 65536
    THEN <<224 + (c \div 4096), 128 + ((c \div 64) % 64), 128 + (c % 64)>>
    ELSE <<240 + (c \div 262144), 128 + ((c \div 4096) % 64),
           128 + ((c \div 64) % 64), 128 + (c % 64)>>

\* str::as_bytes
as_bytes(s) == Flatten([i \in 1..Len(s) |-> Utf8Char(s[i])])

\* std::str::from_utf8 on well-formed bytes: the text they encode
RECURSIVE from_utf8(_)
from_utf8(b) ==
    LET Rest(n) == from_utf8(SubSeq(b, n + 1, Len(b)))
    IN  IF b = <<>> THEN <<>>
        ELSE IF b[1] < 128 THEN <<b[1]>> \o Rest(1)
        ELSE IF b[1] < 224
        THEN <<(b[1] - 192) * 64 + (b[2] - 128)>> \o Rest(2)
        ELSE IF b[1] < 240
        THEN <<(b[1] - 224) * 4096 + (b[2] - 128) * 64 + (b[3] - 128)>> \o Rest(3)
        ELSE <<(b[1] - 240) * 262144 + (b[2] - 128) * 4096
                 + (b[3] - 128) * 64 + (b[4] - 128)>> \o Rest(4)

\* ChunkId::new that counts the characters of the text, not its bytes
ChunkId_new_chars(s) ==
    IF Len(s) # 4 THEN [op |-> "new", ok |-> FALSE, value |-> <<>>]
    ELSE [op |-> "new", ok |-> TRUE, value |-> SubSeq(as_bytes(s), 1, 4)]

\* ChunkId::new: Err("Invalid length") or Ok(ChunkId { value })
ChunkId_new(s) ==
    LET bytes == as_bytes(s)
    IN  IF Len(bytes) # 4 THEN [op |-> "new", ok |-> FALSE, value |-> <<>>]
        ELSE [op |-> "new", ok |-> TRUE, value |-> bytes]

\* ChunkId::as_str: std::str::from_utf8(&self.value).unwrap(); res is "ok" or
\* "panic" (unwrap of an Err)
ChunkId_as_str(self) ==
    IF IsUtf8(self.value) THEN [res |-> "ok", str |-> from_utf8(self.value)]
    ELSE [res |-> "panic", str |-> <<>>]

---------------------------------------------------------------------------
(* The lazy reader: src/src/lazy/riff.rs.  The file behind a path is the   *)
(* sequence of its bytes; every read opens it anew.                        *)

\* ChunkDisk::read_4_bytes: seek to pos, read_exact 4 bytes
read_4_bytes(reader, pos) ==
    IF pos + 4 <= Len(reader) THEN Ok(Slice(reader, pos, pos + 4))
    ELSE Err("Io")

\* struct ChunkDisk; chunk_type is an Option<FourCC>
ChunkDisk(id, chunk_type, pos, payload_len) ==
    [id |-> id, chunk_type |-> chunk_type, pos |-> pos, payload_len |-> payload_len]

NoChunkDisk == ChunkDisk(<<>>, <<>>, 0, 0)

\* A RiffResult<ChunkDisk>
OkDisk(chunk) == [ok |-> TRUE, err |-> "", chunk |-> chunk]
ErrDisk(err) == [ok |-> FALSE, err |-> err, chunk |-> NoChunkDisk]

\* ChunkDisk::from_path
from_path(path_, pos) ==
    LET id_buff == read_4_bytes(path_, pos)
        payload_len_buff == read_4_bytes(path_, pos + 4)
        type_buff == read_4_bytes(path_, pos + 8)
        chunk_type == IF type_buff.ok THEN <<type_buff.data>> ELSE <<>>
    IN  IF ~id_buff.ok THEN ErrDisk(id_buff.err)
        ELSE IF ~payload_len_buff.ok THEN ErrDisk(payload_len_buff.err)
        ELSE OkDisk(ChunkDisk(id_buff.data, chunk_type, pos,
                              from_le_bytes(payload_len_buff.data)))

\* ChunkDisk::chunk_type
ChunkDisk_chunk_type(self) == self.chunk_type

\* ChunkDisk::offset_into_data
offset_into_data(self) ==
    LET s == FourCC_as_str(self.id)
    IN  IF s.ok /\ s.str \in {RIFF_ID, LIST_ID} THEN 12 ELSE 8

\* ChunkDisk::get_raw_child: seek to pos + offset, read_exact payload_len bytes
ChunkDisk_get_raw_child(path_, self) ==
    LET offset == offset_into_data(self)
    IN  IF self.pos + offset + self.payload_len <= Len(path_)
        THEN [res |-> "ok", err |-> "",
              data |-> Slice(path_, self.pos + offset,
                             self.pos + offset + self.payload_len)]
        ELSE [res |-> "err", err |-> "Io", data |-> <<>>]

\* struct ChunkDiskIter
ChunkDiskIter(cursor, cursor_end, error_occurred) ==
    [cursor |-> cursor, cursor_end |-> cursor_end, error_occurred |-> error_occurred]

\* ChunkDisk::iter with the 4 type bytes left in the child region
ChunkDisk_iter_with_type(self) ==
    LET s == FourCC_as_str(self.id)
    IN  IF s.ok /\ s.str \in {RIFF_ID, LIST_ID}
        THEN ChunkDiskIter(self.pos + 12, self.pos + 12 + self.payload_len, FALSE)
        ELSE ChunkDiskIter(self.pos + 8, self.pos + 8 + self.payload_len, FALSE)

\* ChunkDisk::iter
ChunkDisk_iter(self) ==
    LET s == FourCC_as_str(self.id)
    IN  IF s.ok /\ s.str \in {RIFF_ID, LIST_ID}
        THEN ChunkDiskIter(self.pos + 12, self.pos + 12 + self.payload_len - 4, FALSE)
        ELSE ChunkDiskIter(self.pos + 8, self.pos + 8 + self.payload_len, FALSE)

\* What the lazy next() returns, with the iterator it leaves: res is "none",
\* "ok" (Some(Ok(chunk))) or "err" (Some(Err(err))); at is the cursor the
\* item was read at
DiskNextResult(res, err, chunk, at, iter) ==
    [res |-> res, err |-> err, chunk |-> chunk, at |-> at, it |-> iter]

\* next() that reports an error without recording it
ChunkDiskIter_next_forgetful(path_, self) ==
    IF self.error_occurred \/ self.cursor >= self.cursor_end
    THEN DiskNextResult("none", "", NoChunkDisk, self.cursor, self)
    ELSE LET r == from_path(path_, self.cursor)
         IN  IF r.ok
             THEN DiskNextResult("ok", "", r.chunk, self.cursor,
                     [self EXCEPT !.cursor =
                         advance(self.cursor, r.chunk.payload_len)])
             ELSE DiskNextResult("err", r.err, NoChunkDisk, self.cursor, self)

\* ChunkDiskIter::next
ChunkDiskIter_next(path_, self) ==
    IF self.error_occurred \/ self.cursor >= self.cursor_end
    THEN DiskNextResult("none", "", NoChunkDisk, self.cursor, self)
    ELSE LET r == from_path(path_, self.cursor)
         IN  IF r.ok
             THEN DiskNextResult("ok", "", r.chunk, self.cursor,
                     [self EXCEPT !.cursor =
                         advance(self.cursor, r.chunk.payload_len)])
             ELSE DiskNextResult("err", r.err, NoChunkDisk, self.cursor,
                     [self EXCEPT !.error_occurred = TRUE])

\* RiffDisk::from_file: Ok(the path) or an error
RiffDisk_from_file(path_) ==
    IF Len(path_) < 4 THEN Err("Io")
    ELSE LET buffer == Slice(path_, 0, 4)
         IN  IF ~IsUtf8(buffer) THEN Err("Utf8Error")
             ELSE IF buffer = RIFF_ID THEN Ok(path_)
             ELSE Err("InvalidRiffHeader")

\* impl TryFrom<RiffDisk> for ChunkDisk
ChunkDisk_try_from(value) == from_path(value.data, 0)

---------------------------------------------------------------------------
(* Builder runs: the caller constructs chunks bottom-up, attaches them and *)
(* serializes.                                                             *)

NoCall == [op |-> "", content |-> <<>>, n |-> 0]
NoWrite ==
    [ok |-> FALSE, ret |-> 0, at |-> 0, n |-> 0, contents |-> CC_RawData(<<>>, <<>>)]

InitBuilderVars ==
    /\ riff \in {RiffBuilder_new(t) : t \in FormTypes}
    /\ pool = <<>>
    /\ last = NoCall
    /\ added = <<>>

\* Nothing was read back
NoReadback == [res |-> "", contents |-> CC_RawData(<<>>, <<>>)]

InitWriterVars ==
    /\ stream = <<>>
    /\ wpos = 0
    /\ wret = NoWrite
    /\ readback = NoReadback

\* No node of the tree is known to stand behind a chunk
NoTree == CC_RawData(<<>>, <<>>)
NoIter == ChunkRamIter(0, <<>>, FALSE)
NoItem == NextResult("", "", <<>>, 0, NoIter)
NoRaw == [res |-> "", err |-> "", data |-> <<>>]

\* The eager reader before its first call, given a file
FreshEagerVars ==
    /\ ram = Err("")
    /\ cur = Err("")
    /\ curTree = NoTree
    /\ it = NoIter
    /\ item = NoItem
    /\ yielded = <<>>
    /\ depth = 0
    /\ raw = NoRaw
    /\ path = <<>>

\* The eager reader is not used
IdleEagerVars ==
    /\ file = <<>>
    /\ tree = NoTree
    /\ mut = [hdr |-> <<>>, len |-> 0, fix |-> FALSE, of |-> 0, inside |-> 0]
    /\ pc = "idle"
    /\ FreshEagerVars

NoDiskIter == ChunkDiskIter(0, 0, FALSE)
NoDiskItem == DiskNextResult("", "", NoChunkDisk, 0, NoDiskIter)

\* The lazy reader before its first call
FreshLazyVars ==
    /\ disk = Err("")
    /\ dcur = ErrDisk("")
    /\ dit = NoDiskIter
    /\ ditem = NoDiskItem
    /\ dyielded = <<>>
    /\ dpath = <<>>
    /\ draw = NoRaw

\* The lazy reader is not used
IdleLazyVars == dpc = "idle" /\ FreshLazyVars

\* No identifier was constructed, no builder made of sized contents
NoSized == [build |-> "", res |-> "", op |-> "", n |-> 0, pool |-> <<>>,
            riff |-> [payload_len |-> [hi |-> 0, lo |-> 0],
                      written |-> [hi |-> 0, lo |-> 0]]]
NoChunkId == [op |-> "", ok |-> FALSE, value |-> <<>>]
NoView == [res |-> "", str |-> <<>>]
InitCalcVars ==
    /\ text = <<>>
    /\ cid = NoChunkId
    /\ view = NoView
    /\ big = NoSized

NoContent == [res |-> ""]
NoStreamIter == [res |-> ""]
NoSizedWrite == [res |-> ""]
NoOffsets == [res |-> ""]
InitExtraVars ==
    /\ conv = NoContent
    /\ dconv = NoContent
    /\ stack = <<>>
    /\ below = FALSE
    /\ sit = NoStreamIter
    /\ sw = NoSizedWrite
    /\ off = NoOffsets

InitBuilder ==
    /\ InitBuilderVars /\ InitWriterVars /\ IdleEagerVars /\ IdleLazyVars /\ InitCalcVars
    /\ InitExtraVars

\* ChunkBuilder::new_notype(id, ChunkData::RawData(content))
NewLeaf(id, content) ==
    /\ TotalNodes < MaxNodes
    /\ pool' = Append(pool, new_notype(id, RawData(content)))
    /\ last' = [op |-> "new_leaf", content |-> content, n |-> 0]
    /\ UNCHANGED <<riff, added>>
    /\ UNCHANGED writerVars /\ UNCHANGED eagerVars /\ UNCHANGED lazyVars /\ UNCHANGED extraVars /\ UNCHANGED calcVars

\* ChunkBuilder::new_type(id, chunk_type, ChunkData::RawData(content)), as in test_size
NewTypedRaw(id, chunk_type, content) ==
    /\ TotalNodes < MaxNodes
    /\ pool' = Append(pool, new_type(id, chunk_type, RawData(content)))
    /\ last' = [op |-> "new_typed_raw", content |-> content, n |-> 0]
    /\ UNCHANGED <<riff, added>>
    /\ UNCHANGED writerVars /\ UNCHANGED eagerVars /\ UNCHANGED lazyVars /\ UNCHANGED extraVars /\ UNCHANGED calcVars

\* ChunkBuilder::new_notype(SEQT_ID, ChunkData::ChunkList(the newest k chunks))
NewSeqt(k) ==
    /\ TotalNodes < MaxNodes
    /\ k <= Len(pool)
    /\ pool' = Append(SubSeq(pool, 1, Len(pool) - k),
                      new_notype(SEQT_ID,
                          ChunkList(SubSeq(pool, Len(pool) - k + 1, Len(pool)))))
    /\ last' = [op |-> "new_notype", content |-> <<>>, n |-> k]
    /\ UNCHANGED <<riff, added>>
    /\ UNCHANGED writerVars /\ UNCHANGED eagerVars /\ UNCHANGED lazyVars /\ UNCHANGED extraVars /\ UNCHANGED calcVars

\* ChunkBuilder::new_type(LIST_ID, chunk_type, ChunkData::ChunkList(the newest k chunks))
NewList(chunk_type, k) ==
    /\ TotalNodes < MaxNodes
    /\ k <= Len(pool)
    /\ pool' = Append(SubSeq(pool, 1, Len(pool) - k),
                      new_type(LIST_ID, chunk_type,
                          ChunkList(SubSeq(pool, Len(pool) - k + 1, Len(pool)))))
    /\ last' = [op |-> "new_type", content |-> <<>>, n |-> k]
    /\ UNCHANGED <<riff, added>>
    /\ UNCHANGED writerVars /\ UNCHANGED eagerVars /\ UNCHANGED lazyVars /\ UNCHANGED extraVars /\ UNCHANGED calcVars

\* parent.add_chunk(child) on the two newest chunks; self is consumed, and
\* dropped when the call fails
ChunkAddChunk ==
    /\ Len(pool) >= 2
    /\ LET r == ChunkBuilder_add_chunk(pool[Len(pool) - 1], pool[Len(pool)])
       IN  /\ pool' = IF r.ok
                      THEN Append(SubSeq(pool, 1, Len(pool) - 2), r.chunk)
                      ELSE SubSeq(pool, 1, Len(pool) - 2)
           /\ last' = [op |-> IF r.ok THEN "add_chunk" ELSE "add_chunk_err",
                       content |-> <<>>, n |-> 0]
    /\ UNCHANGED <<riff, added>>
    /\ UNCHANGED writerVars /\ UNCHANGED eagerVars /\ UNCHANGED lazyVars /\ UNCHANGED extraVars /\ UNCHANGED calcVars

\* riff.add_chunk(the newest chunk)
RiffAddChunk ==
    /\ Len(pool) >= 1
    /\ riff' = RiffBuilder_add_chunk(riff, pool[Len(pool)])
    /\ added' = Append(added, pool[Len(pool)])
    /\ pool' = SubSeq(pool, 1, Len(pool) - 1)
    /\ last' = [op |-> "riff_add_chunk", content |-> <<>>, n |-> 0]
    /\ UNCHANGED writerVars /\ UNCHANGED eagerVars /\ UNCHANGED lazyVars /\ UNCHANGED extraVars /\ UNCHANGED calcVars

\* contents.write(&mut cursor) on the stream
Write(contents) ==
    /\ wret.n < MaxWrites
    /\ LET r == ChunkContents_write(contents, [buf |-> stream, pos |-> wpos])
       IN  /\ stream' = r.w.buf
           /\ wpos' = r.w.pos
           /\ wret' = [ok |-> r.ok, ret |-> r.ret, at |-> wpos, n |-> wret.n + 1,
                       contents |-> contents]
    /\ readback' = NoReadback
    /\ UNCHANGED builderVars /\ UNCHANGED eagerVars /\ UNCHANGED lazyVars /\ UNCHANGED extraVars /\ UNCHANGED calcVars

NextBuilder ==
    \/ \E id \in LeafIds, content \in Contents : NewLeaf(id, content)
    \/ \E t \in FormTypes, content \in Contents : NewTypedRaw(TEST_ID, t, content)
    \/ \E k \in 0..MaxNodes : NewSeqt(k)
    \/ \E t \in FormTypes, k \in 0..MaxNodes : NewList(t, k)
    \/ ChunkAddChunk
    \/ RiffAddChunk

SpecBuilder == InitBuilder /\ [][NextBuilder]_vars

\* Leaves only: built by the builder and written by the stream writer
NextLeaf ==
    \/ \E id \in LeafIds, content \in Contents : NewLeaf(id, content)
    \/ \E content \in Contents : Write(CC_RawData(TEST_ID, content))

SpecLeaf == InitBuilder /\ [][NextLeaf]_vars

---------------------------------------------------------------------------
(* Eager reader runs: a file is written from a tree with ChunkContents::write, *)
(* possibly damaged, then loaded and walked by the caller.                     *)

RECURSIVE TreesOfSize(_)
RECURSIVE ForestsOfSize(_)

\* The chunk trees of exactly n nodes: leaves "test", LIST and seqt containers
TreesOfSize(n) ==
    (IF n = 1 THEN {CC_RawData(TEST_ID, c) : c \in Contents} ELSE {})
    \cup {CC_Children(LIST_ID, t, f) : t \in FormTypes, f \in ForestsOfSize(n - 1)}
    \cup {CC_ChildrenNoType(SEQT_ID, f) : f \in ForestsOfSize(n - 1)}

\* The sequences of chunk trees of exactly n nodes in all
ForestsOfSize(n) ==
    IF n = 0 THEN {<<>>}
    ELSE UNION {{<<t>> \o f : t \in TreesOfSize(k), f \in ForestsOfSize(n - k)} :
                    k \in 1..n}

\* A leaf whose content is as long as a type field
WideLeaf == CC_RawData(TEST_ID, Content(Len(SMPL_ID)))

\* The trees of the files: a RIFF root over at most MaxTreeNodes chunks, and
\* one over the wide leaf
RootTrees ==
    {CC_Children(RIFF_ID, t, f) :
        t \in FormTypes, f \in UNION {ForestsOfSize(n) : n \in 0..MaxTreeNodes}}
    \cup {CC_Children(RIFF_ID, t, <<WideLeaf>>) : t \in FormTypes}

\* The bytes ChunkContents::write leaves in a fresh cursor
Written(contents) == ChunkContents_write(contents, EmptyCursor).w.buf

\* First identifiers that are not 'RIFF': "LIST", "RIFX", and two that are not UTF-8
BadHeaders == {LIST_ID, <<82, 73, 70, 88>>, <<255, 73, 70, 70>>, <<82, 73, 70, 128>>}

\* Damage: the first bytes replaced by hdr (unless empty), the file cut or
\* zero-extended to len bytes; with fix, the length field of the root is
\* then set to len - 8, so that only chunks below the root are cut short;
\* of is the length of the bytes written; inside is the index of the child
\* of the root whose payload holds all the damage, or 0
Mutations(bytes) ==
    {[hdr |-> <<>>, len |-> n, fix |-> FALSE, of |-> Len(bytes), inside |-> 0] :
        n \in 0..(Len(bytes) + 1)}
    \cup {[hdr |-> h, len |-> n, fix |-> FALSE, of |-> Len(bytes), inside |-> 0] :
        h \in BadHeaders, n \in {7, 8, Len(bytes)}}
    \cup {[hdr |-> <<>>, len |-> n, fix |-> TRUE, of |-> Len(bytes), inside |-> 0] :
        n \in 12..(Len(bytes) - 1)}

Mutate(bytes, m) ==
    [i \in 1..m.len |->
        IF i <= Len(m.hdr) THEN m.hdr[i]
        ELSE IF m.fix /\ i \in 5..8 THEN to_le_bytes(m.len - 8)[i - 4]
        ELSE IF i <= Len(bytes) THEN bytes[i] ELSE 0]

Undamaged == mut.hdr = <<>> /\ mut.len = mut.of /\ ~mut.fix

InitEager ==
    /\ InitBuilderVars /\ InitWriterVars
    /\ tree \in RootTrees
    /\ \E bytes \in {Written(tree)} :
            /\ mut \in Mutations(bytes)
            /\ file = Mutate(bytes, mut)
    /\ pc = "start"
    /\ FreshEagerVars
    /\ dpc = "start"
    /\ FreshLazyVars
    /\ InitCalcVars /\ InitExtraVars

\* RiffRam::from_file(path)
Load ==
    /\ pc = "start"
    /\ ram' = RiffRam_from_file(file)
    /\ pc' = IF ram'.ok THEN "loaded" ELSE "load_failed"
    /\ UNCHANGED <<file, tree, mut, cur, curTree, it, item, yielded, depth, raw, path>>
    /\ UNCHANGED builderVars /\ UNCHANGED writerVars /\ UNCHANGED lazyVars /\ UNCHANGED extraVars /\ UNCHANGED calcVars

\* ChunkRam::try_from(&riff)
AsChunk ==
    /\ pc = "loaded"
    /\ cur' = ChunkRam_try_from(ram)
    /\ pc' = IF cur'.ok THEN "chunk" ELSE "chunk_failed"
    /\ curTree' = IF cur'.ok /\ Undamaged THEN tree ELSE NoTree
    /\ UNCHANGED <<file, tree, mut, ram, it, item, yielded, depth, raw, path>>
    /\ UNCHANGED builderVars /\ UNCHANGED writerVars /\ UNCHANGED lazyVars /\ UNCHANGED extraVars /\ UNCHANGED calcVars

\* chunk.iter()
Iter ==
    /\ pc = "chunk"
    /\ LET r == ChunkRam_iter(cur.data)
       IN  /\ it' = r.it
           /\ pc' = IF r.res = "panic" THEN "panic" ELSE "iter"
    /\ item' = NoItem
    /\ yielded' = <<>>
    /\ UNCHANGED <<file, tree, mut, ram, cur, curTree, depth, raw, path>>
    /\ UNCHANGED builderVars /\ UNCHANGED writerVars /\ UNCHANGED lazyVars /\ UNCHANGED extraVars /\ UNCHANGED calcVars

\* iter.next()
Next ==
    /\ pc = "iter"
    /\ LET r == ChunkRamIter_next(it)
       IN  /\ it' = r.it
           /\ item' = [r EXCEPT !.it = NoIter]
           /\ yielded' = IF r.res \in {"ok", "err"}
                         THEN Append(yielded, [r EXCEPT !.it = NoIter])
                         ELSE yielded
           /\ pc' = IF r.res = "panic" THEN "panic" ELSE "iter"
    /\ UNCHANGED <<file, tree, mut, ram, cur, curTree, depth, raw, path>>
    /\ UNCHANGED builderVars /\ UNCHANGED writerVars /\ UNCHANGED lazyVars /\ UNCHANGED extraVars /\ UNCHANGED calcVars

\* The caller takes the chunk next() just returned, to read or to iterate it
Descend ==
    /\ pc = "iter"
    /\ item.res = "ok"
    /\ cur' = Ok(item.data)
    /\ curTree' = IF curTree.kind # "RawData" /\ Len(yielded) <= Len(curTree.children)
                  THEN curTree.children[Len(yielded)]
                  ELSE NoTree
    /\ depth' = depth + 1
    /\ path' = Append(path, Len(yielded))
    /\ pc' = "chunk"
    /\ it' = NoIter
    /\ item' = NoItem
    /\ yielded' = <<>>
    \* the caller keeps the chunk and the iterator that returned the child
    /\ stack' = Append(stack, [cur |-> cur, curTree |-> curTree, it |-> it,
                                item |-> item, yielded |-> yielded])
    /\ UNCHANGED <<file, tree, mut, ram, raw>>
    /\ UNCHANGED <<conv, dconv, below, sit, sw, off>>
    /\ UNCHANGED builderVars /\ UNCHANGED writerVars /\ UNCHANGED lazyVars /\ UNCHANGED calcVars

\* chunk.get_raw_child()
GetRawChild ==
    /\ pc = "chunk"
    /\ raw' = get_raw_child(cur.data)
    /\ pc' = IF raw'.res = "panic" THEN "panic" ELSE "raw"
    /\ UNCHANGED <<file, tree, mut, ram, cur, curTree, it, item, yielded, depth, path>>
    /\ UNCHANGED builderVars /\ UNCHANGED writerVars /\ UNCHANGED lazyVars /\ UNCHANGED extraVars /\ UNCHANGED calcVars

NextEager ==
    \/ Load
    \/ AsChunk
    \/ Iter
    \/ Next
    \/ Descend
    \/ GetRawChild

SpecEager == InitEager /\ [][NextEager]_vars

---------------------------------------------------------------------------
(* Lazy reader runs, on the same file.                                     *)

\* RiffDisk::from_file(path)
DiskLoad ==
    /\ dpc = "start"
    /\ disk' = RiffDisk_from_file(file)
    /\ dpc' = IF disk'.ok THEN "loaded" ELSE "load_failed"
    /\ UNCHANGED <<dcur, dit, ditem, dyielded, dpath, draw>>
    /\ UNCHANGED builderVars /\ UNCHANGED writerVars /\ UNCHANGED eagerVars
    /\ UNCHANGED calcVars /\ UNCHANGED extraVars

\* ChunkDisk::try_from(riff)
DiskAsChunk ==
    /\ dpc = "loaded"
    /\ dcur' = ChunkDisk_try_from(disk)
    /\ dpc' = IF dcur'.ok THEN "chunk" ELSE "chunk_failed"
    /\ UNCHANGED <<disk, dit, ditem, dyielded, dpath, draw>>
    /\ UNCHANGED builderVars /\ UNCHANGED writerVars /\ UNCHANGED eagerVars
    /\ UNCHANGED calcVars /\ UNCHANGED extraVars

\* chunk.iter()?
DiskIter ==
    /\ dpc = "chunk"
    /\ dit' = ChunkDisk_iter(dcur.chunk)
    /\ dpc' = "iter"
    /\ ditem' = NoDiskItem
    /\ dyielded' = <<>>
    /\ UNCHANGED <<disk, dcur, dpath, draw>>
    /\ UNCHANGED builderVars /\ UNCHANGED writerVars /\ UNCHANGED eagerVars
    /\ UNCHANGED calcVars /\ UNCHANGED extraVars

\* iter.next()
DiskNext ==
    /\ dpc = "iter"
    /\ LET r == ChunkDiskIter_next(file, dit)
       IN  /\ dit' = r.it
           /\ ditem' = [r EXCEPT !.it = NoDiskIter]
           /\ dyielded' = IF r.res \in {"ok", "err"}
                          THEN Append(dyielded, [r EXCEPT !.it = NoDiskIter])
                          ELSE dyielded
    /\ UNCHANGED <<dpc, disk, dcur, dpath, draw>>
    /\ UNCHANGED builderVars /\ UNCHANGED writerVars /\ UNCHANGED eagerVars
    /\ UNCHANGED calcVars /\ UNCHANGED extraVars

\* The caller takes the chunk next() just returned, to read or to iterate it
DiskDescend ==
    /\ dpc = "iter"
    /\ ditem.res = "ok"
    /\ dcur' = OkDisk(ditem.chunk)
    /\ dpath' = Append(dpath, Len(dyielded))
    /\ dpc' = "chunk"
    /\ dit' = NoDiskIter
    /\ ditem' = NoDiskItem
    /\ dyielded' = <<>>
    /\ UNCHANGED <<disk, draw>>
    /\ UNCHANGED builderVars /\ UNCHANGED writerVars /\ UNCHANGED eagerVars
    /\ UNCHANGED calcVars /\ UNCHANGED extraVars

\* chunk.get_raw_child()
DiskGetRawChild ==
    /\ dpc = "chunk"
    /\ draw' = ChunkDisk_get_raw_child(file, dcur.chunk)
    /\ dpc' = "raw"
    /\ UNCHANGED <<disk, dcur, dit, ditem, dyielded, dpath>>
    /\ UNCHANGED builderVars /\ UNCHANGED writerVars /\ UNCHANGED eagerVars
    /\ UNCHANGED calcVars /\ UNCHANGED extraVars

NextLazy ==
    \/ DiskLoad
    \/ DiskAsChunk
    \/ DiskIter
    \/ DiskNext
    \/ DiskDescend
    \/ DiskGetRawChild

SpecLazy == InitEager /\ [][NextLazy]_vars

\* Both readers walk the same file, each at its own pace
NextReaders == NextEager \/ NextLazy

SpecReaders == InitEager /\ [][NextReaders]_vars

---------------------------------------------------------------------------
(* Properties of the builder. *)

\* The newest chunk of the pool: the result of the last constructor or add_chunk
Newest == pool[Len(pool)]

\* A tree the format allows: leaves with a non-reserved id and no type, typed
\* LIST containers, untyped seqt containers
RECURSIVE Lawful(_)
Lawful(c) ==
    IF c.data.kind = "RawData"
    THEN c.chunk_type = <<>> /\ c.chunk_id \notin {RIFF_ID, LIST_ID, SEQT_ID}
    ELSE /\ \/ c.chunk_type # <<>> /\ c.chunk_id = LIST_ID
            \/ c.chunk_type = <<>> /\ c.chunk_id = SEQT_ID
         /\ \A i \in 1..Len(c.data.list) : Lawful(c.data.list[i])

\* The tree a builder node stands for: a leaf's content is its first payload_len
\* bytes (the pad byte is not content)
RECURSIVE TreeOf(_)
TreeOf(c) ==
    IF c.data.kind = "RawData"
    THEN CC_RawData(c.chunk_id, SubSeq(c.data.raw, 1, c.payload_len))
    ELSE IF c.chunk_type # <<>>
    THEN CC_Children(c.chunk_id, c.chunk_type[1],
                     [i \in 1..Len(c.data.list) |-> TreeOf(c.data.list[i])])
    ELSE CC_ChildrenNoType(c.chunk_id,
                     [i \in 1..Len(c.data.list) |-> TreeOf(c.data.list[i])])

\* The tree a RiffBuilder stands for
RiffTreeOf(r) ==
    CC_Children(RIFF_ID, r.chunk_type, [i \in 1..Len(r.data) |-> TreeOf(r.data[i])])

\* Loading bytes as the eager root chunk and walking it recursively
LoadAndWalk(bytes) ==
    LET r == RiffRam_from_file(bytes)
    IN  IF ~r.ok THEN ContentResult("err", r.err, <<>>)
        ELSE LET chunk == ChunkRam_try_from(r)
             IN  IF ~chunk.ok THEN ContentResult("err", chunk.err, <<>>)
                 ELSE ChunkRamContent_try_from(chunk.data)

\* The length the format gives a container with these children:
\* (4 if typed) + the sum of 8 + child.payload_len + (child.payload_len mod 2)
FormatPayloadLen(c) ==
    (IF c.chunk_type # <<>> THEN 4 ELSE 0)
    + SumSeq([i \in 1..Len(c.data.list) |->
                8 + c.data.list[i].payload_len + (c.data.list[i].payload_len % 2)])

\* C1: for every lawful tree built with RiffBuilder/ChunkBuilder, to_bytes
\* followed by the eager load and the recursive walk succeeds and yields the
\* identical tree (ids, form types, child order, leaf contents without pad).
C1_RoundTrip ==
    (\A i \in 1..Len(riff.data) : Lawful(riff.data[i]))
    => LoadAndWalk(RiffBuilder_to_bytes(riff)) = ContentResult("ok", "", RiffTreeOf(riff))

\* C2: after RiffBuilder::new and any sequence of RiffBuilder::add_chunk calls,
\* to_bytes().len() = 8 + payload_len.
C2_RootLenIsEncodedSize ==
    Len(RiffBuilder_to_bytes(riff)) = 8 + riff.payload_len

\* C3: the container ChunkBuilder::add_chunk returns has payload_len =
\* (4 if typed) + the sum over all its children, the new one included, of
\* 8 + child.payload_len + (child.payload_len mod 2).
C3_AddChunkRederives ==
    last.op = "add_chunk" => Newest.payload_len = FormatPayloadLen(Newest)

\* C4: new_type / new_notype given a list of children store payload_len =
\* (4 if typed) + the sum over children of 8 + child.payload_len +
\* (child.payload_len mod 2), which is the number of bytes to_bytes writes after
\* the container's 8-byte header.
C4_ConstructorLen ==
    last.op \in {"new_type", "new_notype"} =>
        /\ Newest.payload_len = FormatPayloadLen(Newest)
        /\ Newest.payload_len = Len(ChunkBuilder_to_bytes(Newest)) - 8

\* What a leaf of this id and content occupies on the wire: id, the unpadded
\* length, the content, and one zero byte exactly when the length is odd
LeafOnWire(bytes, id, content) ==
    LET n == Len(content)
    IN  /\ Len(bytes) = 8 + n + (n % 2)
        /\ SubSeq(bytes, 1, 4) = id
        /\ from_le_bytes(SubSeq(bytes, 5, 8)) = n
        /\ SubSeq(bytes, 9, 8 + n) = content
        /\ n % 2 = 1 => bytes[9 + n] = 0

\* C5: a leaf built (ChunkBuilder) or written (ChunkContents::RawData) from
\* content of length n has length field n and occupies 8 + n + (n mod 2) bytes:
\* exactly one zero pad byte follows when n is odd, none when n is even.
C5_LeafPadding ==
    /\ last.op = "new_leaf" =>
            /\ Newest.payload_len = Len(last.content)
            /\ LeafOnWire(ChunkBuilder_to_bytes(Newest), Newest.chunk_id, last.content)
    /\ wret.ok =>
            /\ wret.ret = 8 + Len(wret.contents.data) + (Len(wret.contents.data) % 2)
            /\ wpos = wret.at + wret.ret
            /\ Len(stream) = wpos
            /\ LeafOnWire(SubSeq(stream, wret.at + 1, wpos), wret.contents.id,
                          wret.contents.data)

\* C5 witness: a leaf of odd length has been built and one has been written
C5_Witness ==
    /\ last.op = "new_leaf" /\ Len(last.content) % 2 = 1
    /\ wret.ok /\ Len(wret.contents.data) % 2 = 1 /\ wret.at > 0

\* The number of bytes a builder node is laid out in
RECURSIVE EncodedLen(_)
EncodedLen(c) ==
    8 + (IF c.chunk_type # <<>> THEN 4 ELSE 0)
    + (IF c.data.kind = "RawData" THEN Len(c.data.raw)
       ELSE SumSeq([i \in 1..Len(c.data.list) |-> EncodedLen(c.data.list[i])]))

\* bytes is the chunks laid out one after the other, each as id, little-endian
\* payload_len, its type if it has one, then its raw bytes or its children
RECURSIVE LaidOut(_, _)
LaidOut(bytes, chunks) ==
    IF chunks = <<>> THEN bytes = <<>>
    ELSE LET c == chunks[1]
             n == EncodedLen(c)
             body == IF c.chunk_type # <<>> THEN 12 ELSE 8
         IN  /\ Len(bytes) >= n
             /\ SubSeq(bytes, 1, 4) = c.chunk_id
             /\ SubSeq(bytes, 5, 8) = to_le_bytes(c.payload_len)
             /\ c.chunk_type # <<>> => SubSeq(bytes, 9, 12) = c.chunk_type[1]
             /\ IF c.data.kind = "RawData"
                THEN SubSeq(bytes, body + 1, n) = c.data.raw
                ELSE LaidOut(SubSeq(bytes, body + 1, n), c.data.list)
             /\ LaidOut(SubSeq(bytes, n + 1, Len(bytes)), Tail(chunks))

\* C6: RiffBuilder::to_bytes emits 'RIFF', the root payload_len (little-endian),
\* the root form type, then every child in the order of the add_chunk calls,
\* each as id, payload_len, type if any, then raw bytes or children, depth-first.
C6_SerializeLayout ==
    LET bytes == RiffBuilder_to_bytes(riff)
    IN  /\ Len(bytes) >= 12
        /\ SubSeq(bytes, 1, 4) = RIFF_ID
        /\ SubSeq(bytes, 5, 8) = to_le_bytes(riff.payload_len)
        /\ SubSeq(bytes, 9, 12) = riff.chunk_type
        /\ LaidOut(SubSeq(bytes, 13, Len(bytes)), added)

\* C6 witness: two children were added, the first a container with a child
C6_Witness ==
    /\ Len(added) >= 2
    /\ added[1].data.kind = "ChunkList" /\ added[1].data.list # <<>>
    /\ added[1] # added[2]

---------------------------------------------------------------------------
(* Properties of the eager reader. *)

\* RiffRam::from_file has returned
LoadReturned == pc \notin {"idle", "start"}

\* The length field of the file's header
HeaderLen == from_le_bytes(SubSeq(file, 5, 8))

\* C7: an eager load of fewer than 8 bytes fails with ChunkTooSmall, whatever
\* the bytes are; nothing is read out of bounds and no chunk is produced.
C7_ShortFileTooSmall ==
    Len(file) < 8 /\ LoadReturned =>
        /\ pc = "load_failed"
        /\ ram = Err("ChunkTooSmall")
        /\ cur = Err("")

\* C7 witness: a well-formed file cut to 7 bytes was given to the loader
C7_Witness ==
    /\ Len(file) = 7 /\ mut.len = 7 /\ LoadReturned
    /\ Len(Written(tree)) > 7

\* C8: an eager load of at least 8 bytes fails with InvalidRiffHeader when the
\* first four bytes are anything but 'RIFF', and succeeds when they are 'RIFF';
\* the header check produces no other error.
C8_HeaderCheck ==
    Len(file) >= 8 /\ LoadReturned =>
        IF SubSeq(file, 1, 4) = RIFF_ID
        THEN ram = Ok(file)
        ELSE ram = Err("InvalidRiffHeader")

\* ChunkRam::try_from(&RiffRam) has returned, and the caller has gone no further
RootConverted == pc \in {"chunk", "chunk_failed"} /\ depth = 0

\* C9 as claimed: for every root the eager load accepts, the conversion to the
\* top chunk succeeds and yields a chunk with id 'RIFF' whose payload_len is the
\* header's length field.
C9_RootAlwaysConverts ==
    ram.ok /\ RootConverted =>
        /\ cur.ok
        /\ ChunkRam_id(cur.data) = RIFF_ID
        /\ ChunkRam_payload_len(cur.data) = HeaderLen

\* C9 as amended: for every root the eager load accepts, the conversion to the
\* top chunk succeeds exactly when the buffer holds 8 + the header's length
\* field bytes, and then yields a chunk with id 'RIFF' whose payload_len is that
\* field; otherwise it returns PayloadLenMismatch.
C9_RootConvertsIffLenMatches ==
    ram.ok /\ RootConverted =>
        /\ cur.ok <=> Len(file) = 8 + HeaderLen
        /\ cur.ok => /\ pc = "chunk"
                     /\ ChunkRam_id(cur.data) = RIFF_ID
                     /\ ChunkRam_payload_len(cur.data) = HeaderLen
                     /\ cur.data = file
        /\ ~cur.ok => pc = "chunk_failed" /\ cur = Err("PayloadLenMismatch")

\* C9 witness: a loaded root longer than its header says was refused
C9_Witness ==
    /\ ram.ok /\ RootConverted /\ ~cur.ok
    /\ Len(file) > 8 + HeaderLen

\* The payload length and the size on the wire the format gives a tree node
RECURSIVE FormatLen(_)
FormatLen(t) ==
    IF t.kind = "RawData" THEN Len(t.data)
    ELSE (IF t.kind = "Children" THEN 4 ELSE 0)
         + SumSeq([i \in 1..Len(t.children) |->
                8 + FormatLen(t.children[i]) + (FormatLen(t.children[i]) % 2)])

WireSize(t) == 8 + FormatLen(t) + (FormatLen(t) % 2)

\* The offset of child k in the child region of a well-formed container
ChildOffset(t, k) == SumSeq([j \in 1..(k - 1) |-> WireSize(t.children[j])])

\* The caller is iterating a container of a well-formed file
IteratingContainer == pc = "iter" /\ curTree # NoTree /\ curTree.kind # "RawData"

\* C10: for a well-formed container, iter() yields exactly the children in file
\* order, each as Ok with the id and payload_len of its header and read at the
\* offset after its predecessors and their pad bytes; get_raw_child of a leaf
\* returns its payload_len content bytes without the pad; after the last child
\* next() returns None.
C10_IterWellFormed ==
    /\ IteratingContainer =>
        /\ Len(yielded) <= Len(curTree.children)
        /\ \A k \in 1..Len(yielded) :
            LET child == curTree.children[k]
                y == yielded[k]
            IN  /\ y.res = "ok"
                /\ ChunkRam_id(y.data) = child.id
                /\ ChunkRam_payload_len(y.data) = FormatLen(child)
                /\ y.at = ChildOffset(curTree, k)
                /\ child.kind = "RawData" =>
                        get_raw_child(y.data) = [res |-> "ok", err |-> "",
                                                 data |-> child.data]
        /\ item.res = "none" => Len(yielded) = Len(curTree.children)
        /\ item.res = "" => yielded = <<>>
    /\ curTree # NoTree /\ curTree.kind = "RawData" /\ raw # NoRaw =>
        pc = "raw" /\ raw = [res |-> "ok", err |-> "", data |-> curTree.data]

\* C10 witness: inside a LIST, a child was read after a first child of odd
\* length, and next() then returned None
C10_Witness ==
    /\ IteratingContainer /\ curTree.id = LIST_ID
    /\ Len(yielded) = 2 /\ item.res = "none"
    /\ ChunkRam_payload_len(yielded[1].data) % 2 = 1
    /\ ChunkRam_payload_len(yielded[2].data) % 2 = 1


---------------------------------------------------------------------------
(* Properties of the two readers on the same file. *)

\* In a sequence of items an iterator returned, an Err is the last item
ErrOnlyLast(items) ==
    \A i \in 1..Len(items) : items[i].res = "err" => i = Len(items)

\* The last item the iterator returned was an Err
EndedInErr(items) == items # <<>> /\ items[Len(items)].res = "err"

\* C11: sticky-error rule.  Over the next() calls on one iterator, eager or
\* lazy, at most one Err is yielded, no Ok follows an Err, and once an Err
\* was yielded every later next() returns None.
C11_StickyError ==
    /\ ErrOnlyLast(yielded)
    /\ EndedInErr(yielded) =>
          /\ item.res \in {"err", "none"}
          /\ ChunkRamIter_next(it).res = "none"
    /\ ErrOnlyLast(dyielded)
    /\ EndedInErr(dyielded) =>
          /\ ditem.res \in {"err", "none"}
          /\ ChunkDiskIter_next(file, dit).res = "none"

\* C11 witness: on one file both iterators returned items and then an Err,
\* and were called again
C11_Witness ==
    /\ Len(yielded) >= 2 /\ EndedInErr(yielded) /\ item.res = "none"
    /\ Len(dyielded) >= 2 /\ EndedInErr(dyielded) /\ ditem.res = "none"

\* classify(id) = Leaf: the identifier is none of 'RIFF', 'LIST', 'seqt'
IsLeafId(id) ==
    LET s == FourCC_as_str(id)
    IN  ~(s.ok /\ s.str \in {RIFF_ID, LIST_ID, SEQT_ID})

\* classify(id) = TypedContainer
IsTypedId(id) ==
    LET s == FourCC_as_str(id)
    IN  s.ok /\ s.str \in {RIFF_ID, LIST_ID}

\* The eager reader holds a chunk
HasChunk == pc \in {"chunk", "iter", "raw"} /\ cur.ok
\* The lazy reader holds a chunk
HasDiskChunk == dpc \in {"chunk", "iter", "raw"} /\ dcur.ok

\* C12: chunk_type() fails for every chunk that is a leaf, and for a typed
\* container with fewer than 4 bytes after its header, in the eager and in
\* the lazy reader.
C12_ChunkTypeOnlyForContainers ==
    /\ HasChunk /\ IsLeafId(ChunkRam_id(cur.data)) =>
          ~ChunkRam_chunk_type(cur.data).ok
    /\ HasChunk /\ IsTypedId(ChunkRam_id(cur.data))
                /\ ChunkRam_payload_len(cur.data) < 4 =>
          ~ChunkRam_chunk_type(cur.data).ok
    /\ HasDiskChunk /\ IsLeafId(dcur.chunk.id) =>
          ChunkDisk_chunk_type(dcur.chunk) = <<>>
    /\ HasDiskChunk /\ IsTypedId(dcur.chunk.id) /\ dcur.chunk.payload_len < 4 =>
          ChunkDisk_chunk_type(dcur.chunk) = <<>>

\* The bytes of a chunk's span after its content offset
SpanLen(id, payload_len) ==
    8 + payload_len - (IF IsTypedId(id) THEN 12 ELSE 8)

\* C13: get_raw_child on a chunk a reader produced returns bytes inside the
\* chunk's own span, or an error; it never indexes past the chunk's buffer.
C13_RawContentInSpan ==
    /\ raw.res # "panic"
    /\ raw.res = "ok" =>
          Len(raw.data) <= SpanLen(ChunkRam_id(cur.data), ChunkRam_payload_len(cur.data))
    /\ draw.res = "ok" =>
          Len(draw.data) <= SpanLen(dcur.chunk.id, dcur.chunk.payload_len)

\* RiffDisk::from_file has returned
DiskLoadReturned == dpc # "start"

\* C14: on every file the lazy and the eager loader agree: both succeed or
\* both fail with the same error.
C14_LoadersAgree ==
    LoadReturned /\ DiskLoadReturned =>
        /\ ram.ok = disk.ok
        /\ ram.err = disk.err

\* Both readers iterate the same container of the file
SameContainer ==
    /\ pc = "iter" /\ dpc = "iter"
    /\ path = dpath

\* The i-th items of the two iterators are alike: both Err, or both Ok with
\* the same id and payload_len
SameItem(i) ==
    /\ yielded[i].res = dyielded[i].res
    /\ yielded[i].res = "ok" =>
          /\ ChunkRam_id(yielded[i].data) = dyielded[i].chunk.id
          /\ ChunkRam_payload_len(yielded[i].data) = dyielded[i].chunk.payload_len

\* C15: on every file and container the lazy iterator yields the same
\* sequence as the eager one: as many items, Ok and Err at the same
\* positions, the same (id, payload_len) for each Ok.
C15_SameChildren ==
    SameContainer =>
        /\ \A i \in 1..Len(yielded) : i <= Len(dyielded) => SameItem(i)
        /\ item.res = "none" /\ ditem.res = "none" => Len(yielded) = Len(dyielded)
        /\ item.res = "none" => Len(dyielded) <= Len(yielded)
        /\ ditem.res = "none" => Len(yielded) <= Len(dyielded)

\* C20: on a well-formed file the advance rule reaches the end of the
\* children exactly: when the iterator of a container returns None, the lazy
\* cursor equals cursor_end and the eager cursor the length of the child
\* region.
C20_AdvanceReachesEnd ==
    /\ Undamaged /\ pc = "iter" /\ ~IsLeafId(ChunkRam_id(cur.data)) /\ item.res = "none" =>
          it.cursor = Len(it.data)
    /\ Undamaged /\ dpc = "iter" /\ ~IsLeafId(dcur.chunk.id) /\ ditem.res = "none" =>
          dit.cursor = dit.cursor_end

\* C20 witness: both iterators of a nested container, whose first child has
\* an odd length, returned two children and then None
C20_Witness ==
    /\ Undamaged /\ SameContainer /\ path # <<>>
    /\ Len(yielded) = 2 /\ ChunkRam_payload_len(yielded[1].data) % 2 = 1
    /\ item.res = "none"
    /\ Len(dyielded) = 2 /\ ditem.res = "none"


---------------------------------------------------------------------------
(* Identifier runs: the caller makes a ChunkId from a text or from 4 bytes *)
(* read from a stream, and views it as text.                               *)

\* Longest text given to ChunkId::new
MaxTextLen == 5

\* 'R', e acute (2 bytes), the euro sign (3 bytes), a 4-byte scalar value
Chars == {82, 233, 8364, 128512}

RECURSIVE TextsOfLen(_)
TextsOfLen(n) ==
    IF n = 0 THEN {<<>>}
    ELSE {<<c>> \o t : c \in Chars, t \in TextsOfLen(n - 1)}

\* The texts of the tests: "RIFF", "LIST", "seqt", "123 ", "123", "12345"
TestTexts ==
    {RIFF_ID, LIST_ID, SEQT_ID, <<49, 50, 51, 32>>, <<49, 50, 51>>,
     <<49, 50, 51, 52, 53>>}

Texts == TestTexts \cup UNION {TextsOfLen(n) : n \in 0..MaxTextLen}

\* Four bytes found in a stream, some of them not UTF-8
StreamIds == {RIFF_ID, TEST_ID} \cup BadHeaders \cup {<<255, 254, 253, 252>>}

\* ChunkId::new(s)
ChunkIdNew(s) ==
    /\ cid = NoChunkId
    /\ text' = s
    /\ cid' = ChunkId_new(s)
    /\ view' = NoView
    /\ UNCHANGED big
    /\ UNCHANGED builderVars /\ UNCHANGED writerVars /\ UNCHANGED eagerVars
    /\ UNCHANGED lazyVars /\ UNCHANGED extraVars

\* ChunkId { value }: an identifier made of the bytes of a chunk header
ChunkIdOfBytes(b) ==
    /\ cid = NoChunkId
    /\ text' = <<>>
    /\ cid' = [op |-> "bytes", ok |-> TRUE, value |-> b]
    /\ view' = NoView
    /\ UNCHANGED big
    /\ UNCHANGED builderVars /\ UNCHANGED writerVars /\ UNCHANGED eagerVars
    /\ UNCHANGED lazyVars /\ UNCHANGED extraVars

\* id.as_str()
AsStr ==
    /\ cid.ok
    /\ view = NoView
    /\ view' = ChunkId_as_str(cid)
    /\ UNCHANGED <<text, cid, big>>
    /\ UNCHANGED builderVars /\ UNCHANGED writerVars /\ UNCHANGED eagerVars
    /\ UNCHANGED lazyVars /\ UNCHANGED extraVars

NextChunkId ==
    \/ \E s \in Texts : ChunkIdNew(s)
    \/ \E b \in StreamIds : ChunkIdOfBytes(b)
    \/ AsStr

SpecChunkId == InitBuilder /\ [][NextChunkId]_vars

\* The number of bytes one scalar value takes in UTF-8
Utf8Width(c) == IF c < 128 THEN 1 ELSE IF c < 2048 THEN 2 ELSE IF c < 65536 THEN 3 ELSE 4

\* The number of bytes of a text
ByteLen(s) == SumSeq([i \in 1..Len(s) |-> Utf8Width(s[i])])

\* C16: ChunkId::new fails iff the text's byte length is not 4; when it
\* succeeds the identifier's bytes are the text's bytes, viewing it as text
\* returns the original text, and 'RIFF', 'LIST', 'seqt' give the reserved ids.
C16_NewIffFourBytes ==
    cid.op = "new" =>
        /\ cid.ok <=> ByteLen(text) = 4
        /\ cid.ok => cid.value = as_bytes(text)
        /\ cid.ok /\ view # NoView => view.res = "ok" /\ view.str = text
        /\ text = <<82, 73, 70, 70>> => cid.ok /\ cid.value = RIFF_ID
        /\ text = <<76, 73, 83, 84>> => cid.ok /\ cid.value = LIST_ID
        /\ text = <<115, 101, 113, 116>> => cid.ok /\ cid.value = SEQT_ID

\* C16 witness: a text of two characters and four bytes was made an
\* identifier and viewed as text again
C16_Witness ==
    /\ cid.op = "new" /\ cid.ok /\ Len(text) = 2
    /\ view.res = "ok"

\* C17: as_str never panics; it returns Utf8Error exactly when the 4 bytes
\* are not valid UTF-8, and the text otherwise.
C17_AsStrFallible ==
    view # NoView =>
        /\ view.res # "panic"
        /\ view.res = "err" <=> ~IsUtf8(cid.value)
        /\ view.res = "ok" => as_bytes(view.str) = cid.value


---------------------------------------------------------------------------
(* Stream runs: a tree is written into a cursor over a vector, empty or     *)
(* filled with zeros, at its start or after a leaf, and is read back.      *)

\* The length of the vector of zeros the cursor is created over
MaxPrefill == 16

\* The trees written: leaves, LIST and seqt containers, RIFF roots
StreamTrees == RootTrees \cup UNION {TreesOfSize(n) : n \in 1..MaxTreeNodes}

InitStream ==
    /\ InitBuilderVars /\ IdleEagerVars /\ IdleLazyVars /\ InitCalcVars /\ InitExtraVars
    /\ stream \in {<<>>, [i \in 1..MaxPrefill |-> 0]}
    /\ wpos = 0
    /\ wret = NoWrite
    /\ readback = NoReadback

\* Chunk::read(&mut cursor, pos) and read_chunk(&chunk, &mut cursor)
ReadBack ==
    /\ wret.n > 0 /\ wret.ok
    /\ readback = NoReadback
    /\ LET chunk == Chunk_read(stream, wret.at)
       IN  readback' = IF chunk.ok THEN read_chunk(chunk.chunk, stream)
                       ELSE [res |-> "panic", contents |-> CC_RawData(<<>>, <<>>)]
    /\ UNCHANGED <<stream, wpos, wret>>
    /\ UNCHANGED builderVars /\ UNCHANGED eagerVars /\ UNCHANGED lazyVars /\ UNCHANGED extraVars
    /\ UNCHANGED calcVars

\* contents.write(&mut cursor) at the start of the stream, or after a leaf
StreamWrite(contents) ==
    /\ wret.n = 0 \/ wret.contents.kind = "RawData"
    /\ Write(contents)

NextStream ==
    \/ \E t \in StreamTrees : StreamWrite(t)
    \/ ReadBack

SpecStream == InitStream /\ [][NextStream]_vars

\* C18: stream round trip.  A tree written with ChunkContents::write and
\* read back from where it was written (Chunk::read, read_type, iter,
\* iter_no_type, read_contents, recursively) is the tree written.
C18_StreamRoundTrip ==
    readback # NoReadback =>
        /\ readback.res = "ok"
        /\ readback.contents = wret.contents

\* C18 witness: a RIFF tree holding a leaf of odd length before another
\* chunk and an empty container was read back
C18_Witness ==
    /\ readback.res = "ok"
    /\ wret.contents.kind = "Children" /\ wret.contents.id = RIFF_ID
    /\ Len(wret.contents.children) >= 2
    /\ wret.contents.children[1].kind = "RawData"
    /\ Len(wret.contents.children[1].data) % 2 = 1
    /\ \E i \in 2..Len(wret.contents.children) :
          /\ wret.contents.children[i].kind # "RawData"
          /\ wret.contents.children[i].children = <<>>


---------------------------------------------------------------------------
(* Sizes: the length arithmetic of the builder (src/src/builder/riff.rs)   *)
(* on contents given by their length only, so that lengths around 2^32 can *)
(* be built.  A length is a pair of limbs: hi * 2^16 + lo.  A u32 has      *)
(* hi < 2^16; a usize (64 bits) is never exceeded here.                    *)

Limb == 256 * 256

W(hi, lo) == [hi |-> hi, lo |-> lo]

\* a + b on lengths, without a bound
WAdd(a, b) ==
    LET l == a.lo + b.lo
    IN  W(a.hi + b.hi + (l \div Limb), l % Limb)

\* The length fits a u32
FitsU32(w) == w.hi < Limb

\* "as u32": the low 32 bits
as_u32(w) == W(w.hi % Limb, w.lo)

\* a + b on u32: an overflow panics in a build with overflow checks (debug)
\* and wraps in one without (release)
u32_add(a, b, build) ==
    LET sum == WAdd(a, b)
    IN  IF FitsU32(sum) THEN [ok |-> TRUE, val |-> sum]
        ELSE IF build = "debug" THEN [ok |-> FALSE, val |-> W(0, 0)]
        ELSE [ok |-> TRUE, val |-> as_u32(sum)]

\* Iterator::sum::<u32>() of the items from the i-th on, added to acc
RECURSIVE u32_sum(_, _, _, _)
u32_sum(items, i, acc, build) ==
    IF i > Len(items) THEN [ok |-> TRUE, val |-> acc]
    ELSE IF ~items[i].ok THEN items[i]
    ELSE LET r == u32_add(acc, items[i].val, build)
         IN  IF ~r.ok THEN r ELSE u32_sum(items, i + 1, r.val, build)

\* A ChunkBuilder whose data is known by its length: len is data.len() of a
\* RawData after fit_data, written the bytes to_bytes writes after the
\* 8-byte header, actual the true payload byte count (unpadded)
SizedChunk(payload_len, typed, kind, len, written, actual) ==
    [payload_len |-> payload_len, typed |-> typed, kind |-> kind, len |-> len,
     written |-> written, actual |-> actual]

\* ChunkBuilder::calculate_payload on RawData of n bytes
sized_payload_raw(n, offset, build) == u32_add(as_u32(n), W(0, offset), build)

\* ChunkBuilder::calculate_payload on a ChunkList
sized_payload_list(children, offset, build) ==
    LET items == [i \in 1..Len(children) |->
                    u32_add(children[i].payload_len,
                            IF children[i].typed THEN W(0, 12) ELSE W(0, 8), build)]
        sum == u32_sum(items, 1, W(0, 0), build)
    IN  IF ~sum.ok THEN sum ELSE u32_add(sum.val, W(0, offset), build)

\* The bytes to_bytes writes for the chunks: header and what follows it
RECURSIVE SizedWritten(_, _)
SizedWritten(children, i) ==
    IF i > Len(children) THEN W(0, 0)
    ELSE WAdd(WAdd(W(0, 8), children[i].written), SizedWritten(children, i + 1))

\* ChunkBuilder::new_notype / new_type on RawData of n bytes
sized_new_raw(n, typed, build) ==
    LET offset == IF typed THEN 4 ELSE 0
        payload_len == sized_payload_raw(n, offset, build)
        len == WAdd(n, W(0, n.lo % 2))
    IN  [ok |-> payload_len.ok,
         chunk |-> SizedChunk(payload_len.val, typed, "RawData", len,
                              WAdd(W(0, offset), len), WAdd(W(0, offset), n))]

\* ChunkBuilder::new_notype / new_type on a ChunkList
sized_new_list(children, typed, build) ==
    LET offset == IF typed THEN 4 ELSE 0
        payload_len == sized_payload_list(children, offset, build)
        written == WAdd(W(0, offset), SizedWritten(children, 1))
    IN  [ok |-> payload_len.ok,
         chunk |-> SizedChunk(payload_len.val, typed, "ChunkList", W(0, 0),
                              written, written)]

\* RiffBuilder::add_chunk of a chunk of RawData
sized_riff_add(self, chunk, build) ==
    LET a == u32_add(self.payload_len, W(0, 8), build)
        b == IF ~a.ok THEN a
             ELSE IF chunk.typed THEN u32_add(a.val, W(0, 4), build) ELSE a
        c == IF ~b.ok THEN b ELSE u32_add(b.val, as_u32(chunk.len), build)
    IN  [ok |-> c.ok,
         riff |-> [payload_len |-> c.val,
                   written |-> WAdd(self.written, WAdd(W(0, 8), chunk.written))]]

\* Most builder calls in a run on sized contents
MaxSized == 3

\* Content lengths: 0, 2, 2^32 - 8, 2^32 - 4, 2^32 - 1, 2^32, 2^32 + 2
SizedLens ==
    {W(0, 0), W(0, 2), W(Limb - 1, Limb - 8), W(Limb - 1, Limb - 4),
     W(Limb - 1, Limb - 1), W(Limb, 0), W(Limb, 2)}

InitSized ==
    /\ InitBuilderVars /\ InitWriterVars /\ IdleEagerVars /\ IdleLazyVars
    /\ text = <<>> /\ cid = NoChunkId /\ view = NoView /\ InitExtraVars
    /\ \E build \in {"debug", "release"} :
          big = [NoSized EXCEPT !.build = build, !.res = "ok",
                                !.riff = [payload_len |-> W(0, 4), written |-> W(0, 4)]]

\* ChunkBuilder::new_notype / new_type(.., ChunkData::RawData(vec)), vec of n bytes
SizedLeaf(n, typed) ==
    /\ big.res = "ok" /\ big.n < MaxSized
    /\ LET r == sized_new_raw(n, typed, big.build)
       IN  big' = [big EXCEPT !.op = "new_raw", !.n = big.n + 1,
                       !.res = IF r.ok THEN "ok" ELSE "panic",
                       !.pool = IF r.ok THEN Append(big.pool, r.chunk) ELSE big.pool]
    /\ UNCHANGED <<text, cid, view>>
    /\ UNCHANGED builderVars /\ UNCHANGED writerVars /\ UNCHANGED eagerVars
    /\ UNCHANGED lazyVars /\ UNCHANGED extraVars

\* ChunkBuilder::new_notype / new_type(.., ChunkData::ChunkList(vec)), vec the
\* chunks of the pool
SizedList(typed) ==
    /\ big.res = "ok" /\ big.n < MaxSized /\ big.pool # <<>>
    /\ LET r == sized_new_list(big.pool, typed, big.build)
       IN  big' = [big EXCEPT !.op = "new_list", !.n = big.n + 1,
                       !.res = IF r.ok THEN "ok" ELSE "panic",
                       !.pool = IF r.ok THEN <<r.chunk>> ELSE big.pool]
    /\ UNCHANGED <<text, cid, view>>
    /\ UNCHANGED builderVars /\ UNCHANGED writerVars /\ UNCHANGED eagerVars
    /\ UNCHANGED lazyVars /\ UNCHANGED extraVars

\* riff.add_chunk(chunk), chunk the newest chunk of RawData of the pool
SizedRiffAdd ==
    /\ big.res = "ok" /\ big.n < MaxSized /\ big.pool # <<>>
    /\ big.pool[Len(big.pool)].kind = "RawData"
    /\ LET r == sized_riff_add(big.riff, big.pool[Len(big.pool)], big.build)
       IN  big' = [big EXCEPT !.op = "riff_add", !.n = big.n + 1,
                       !.res = IF r.ok THEN "ok" ELSE "panic",
                       !.riff = IF r.ok THEN r.riff ELSE big.riff,
                       !.pool = SubSeq(big.pool, 1, Len(big.pool) - 1)]
    /\ UNCHANGED <<text, cid, view>>
    /\ UNCHANGED builderVars /\ UNCHANGED writerVars /\ UNCHANGED eagerVars
    /\ UNCHANGED lazyVars /\ UNCHANGED extraVars

NextSized ==
    \/ \E n \in SizedLens, typed \in BOOLEAN : SizedLeaf(n, typed)
    \/ \E typed \in BOOLEAN : SizedList(typed)
    \/ SizedRiffAdd

SpecSized == InitSized /\ [][NextSized]_vars

\* C19: the builder fails with SizeOverflow when a payload length does not
\* fit the 32-bit field and in no other case (it never panics), and never
\* keeps a truncated or wrapped length: every length field of a builder
\* that was made is the true payload byte count.
C19_NoWrappedLength ==
    /\ big.res # "panic"
    /\ \A i \in 1..Len(big.pool) : big.pool[i].payload_len = big.pool[i].actual
    /\ big.op = "riff_add" => big.riff.payload_len = big.riff.written

---------------------------------------------------------------------------
(* The recursive content conversions: src/src/eager/riff.rs 323-354,          *)
(* src/src/lazy/riff.rs 22-54                                              *)

RECURSIVE ChunkDiskContent_try_from(_, _)
RECURSIVE collect_disk_children(_, _, _)

\* chunk.iter()?.map(|child| ChunkDiskContent::try_from(child?)).collect::<Result<Vec<_>, _>>()
collect_disk_children(path_, iter, acc) ==
    LET r == ChunkDiskIter_next(path_, iter)
    IN  IF r.res = "none" THEN ContentResult("ok", "", acc)
        ELSE IF r.res = "err" THEN ContentResult("err", r.err, <<>>)
        ELSE LET c == ChunkDiskContent_try_from(path_, r.chunk)
             IN  IF c.res # "ok" THEN c
                 ELSE collect_disk_children(path_, r.it, Append(acc, c.content))

\* impl TryFrom<ChunkDisk> for ChunkDiskContent
ChunkDiskContent_try_from(path_, chunk) ==
    LET s == FourCC_as_str(chunk.id)
    IN  IF s.ok /\ s.str \in {RIFF_ID, LIST_ID}
        THEN LET chunk_type == ChunkDisk_chunk_type(chunk)
                 kids == collect_disk_children(path_, ChunkDisk_iter(chunk), <<>>)
             IN  IF kids.res # "ok" THEN kids
                 ELSE IF chunk_type = <<>> THEN ContentResult("err", "NoneError", <<>>)
                 ELSE ContentResult("ok", "",
                         CC_Children(chunk.id, chunk_type[1], kids.content))
        ELSE IF s.ok /\ s.str = SEQT_ID
        THEN LET kids == collect_disk_children(path_, ChunkDisk_iter(chunk), <<>>)
             IN  IF kids.res # "ok" THEN kids
                 ELSE ContentResult("ok", "", CC_ChildrenNoType(chunk.id, kids.content))
        ELSE LET contents == ChunkDisk_get_raw_child(path_, chunk)
             IN  IF contents.res # "ok" THEN ContentResult("err", contents.err, <<>>)
                 ELSE ContentResult("ok", "", CC_RawData(chunk.id, contents.data))

\* Identifiers that differ from "LIST", "seqt" and "RIFF" in case or in one
\* byte: "LISt", "list", "SEQT", "RIFX", and one that is not UTF-8
NearIds ==
    {<<76, 73, 83, 116>>, <<108, 105, 115, 116>>, <<83, 69, 81, 84>>,
     <<82, 73, 70, 88>>, <<255, 73, 70, 70>>}

\* A leaf whose content is what a typed container holds: a form type and a chunk
Disguised(id) ==
    CC_RawData(id, SMPL_ID \o ChunkContents_write(CC_RawData(TEST_ID, Content(1)),
                                                  EmptyCursor).w.buf)

\* The trees of the conversion runs: a RIFF root over at most two chunks, or
\* over a disguised leaf and at most one chunk
ConvertTrees ==
    {CC_Children(RIFF_ID, t, f) :
        t \in FormTypes, f \in UNION {ForestsOfSize(n) : n \in 0..2}}
    \cup {CC_Children(RIFF_ID, SMPL_ID, <<Disguised(id)>> \o f) :
            id \in NearIds, f \in UNION {ForestsOfSize(n) : n \in 0..1}}
    \cup {CC_Children(RIFF_ID, SMPL_ID, <<CC_ChildrenNoType(SEQT_ID, <<Disguised(id)>>)>>) :
            id \in NearIds}

InitConvert ==
    /\ InitBuilderVars /\ InitWriterVars
    /\ tree \in ConvertTrees
    /\ \E bytes \in {Written(tree)} :
            /\ mut \in Mutations(bytes)
            /\ file = Mutate(bytes, mut)
    /\ pc = "start"
    /\ FreshEagerVars
    /\ dpc = "start"
    /\ FreshLazyVars
    /\ InitCalcVars /\ InitExtraVars

\* ChunkRamContent::try_from(chunk)
Convert ==
    /\ pc = "chunk"
    /\ conv' = ChunkRamContent_try_from(cur.data)
    /\ pc' = IF conv'.res = "panic" THEN "panic" ELSE "converted"
    /\ UNCHANGED <<file, tree, mut, ram, cur, curTree, it, item, yielded, depth, raw, path>>
    /\ UNCHANGED <<dconv, stack, below, sit, sw, off>>
    /\ UNCHANGED builderVars /\ UNCHANGED writerVars /\ UNCHANGED lazyVars /\ UNCHANGED calcVars

\* ChunkDiskContent::try_from(chunk)
DiskConvert ==
    /\ dpc = "chunk"
    /\ dconv' = ChunkDiskContent_try_from(file, dcur.chunk)
    /\ dpc' = "converted"
    /\ UNCHANGED <<disk, dcur, dit, ditem, dyielded, dpath, draw>>
    /\ UNCHANGED <<conv, stack, below, sit, sw, off>>
    /\ UNCHANGED builderVars /\ UNCHANGED writerVars /\ UNCHANGED eagerVars
    /\ UNCHANGED calcVars

NextConvert ==
    \/ NextReaders
    \/ Convert
    \/ DiskConvert

SpecConvert == InitConvert /\ [][NextConvert]_vars

RECURSIVE ClassifiedById(_)
\* Every node of a content tree has the kind of its identifier
ClassifiedById(c) ==
    /\ c.kind = "Children" <=> c.id \in {RIFF_ID, LIST_ID}
    /\ c.kind = "ChildrenNoType" <=> c.id = SEQT_ID
    /\ c.kind = "RawData" <=> c.id \notin {RIFF_ID, LIST_ID, SEQT_ID}
    /\ \A i \in 1..Len(c.children) : ClassifiedById(c.children[i])

RECURSIVE InTree(_, _)
\* A path of child indices leads to a node of the tree
InTree(t, p) ==
    p = <<>> \/ (p[1] \in 1..Len(t.children) /\ InTree(t.children[p[1]], Tail(p)))

RECURSIVE NodeAt(_, _)
\* The node of a tree that a path of child indices leads to
NodeAt(t, p) ==
    IF p = <<>> THEN t ELSE NodeAt(t.children[p[1]], Tail(p))

\* C21: whatever the bytes, a successful conversion of either reader gives
\* Children exactly for the identifiers RIFF and LIST, ChildrenNoType exactly
\* for seqt and RawData for every other identifier, at every depth; and on
\* the file as written both conversions give back the tree it was written
\* from, for every chunk of that tree: form type from offset 8 and children
\* from offset 12 of RIFF and LIST, children from offset 8 of seqt, content
\* from offset 8 of a leaf, nothing inside a leaf taken for a chunk.
C21_ClassifiedByExactId ==
    /\ conv.res = "ok" => ClassifiedById(conv.content)
    /\ dconv.res = "ok" => ClassifiedById(dconv.content)
    /\ (pc = "converted" /\ Undamaged /\ InTree(tree, path)) =>
            conv.res = "ok" /\ conv.content = NodeAt(tree, path)
    /\ (dpc = "converted" /\ Undamaged /\ InTree(tree, dpath)) =>
            dconv.res = "ok" /\ dconv.content = NodeAt(tree, dpath)

\* Both readers converted the root of an undamaged file that holds a leaf
\* named "LISt" with the content of a typed container
C21_Witness ==
    /\ pc = "converted" /\ dpc = "converted" /\ Undamaged
    /\ path = <<>> /\ dpath = <<>>
    /\ conv.res = "ok" /\ dconv.res = "ok"
    /\ Len(tree.children) = 2
    /\ tree.children[1] = Disguised(<<76, 73, 83, 116>>)
    /\ conv.content.children[1].kind = "RawData"
    /\ dconv.content.children[1].kind = "RawData"

---------------------------------------------------------------------------
(* Containment of the children in their parent *)

\* Every Ok item of the eager iterator ends inside the iterator's region
EagerChildrenInside ==
    \A i \in 1..Len(yielded) :
        yielded[i].res = "ok" =>
            yielded[i].at + 8 + ChunkRam_payload_len(yielded[i].data) <= Len(it.data)

\* Every Ok item of the lazy iterator ends at or before cursor_end
LazyChildrenInside ==
    \A i \in 1..Len(dyielded) :
        dyielded[i].res = "ok" =>
            dyielded[i].at + 8 + dyielded[i].chunk.payload_len <= dit.cursor_end

\* C22: whatever the bytes, every child an eager or a lazy iterator yields
\* as Ok lies inside its parent's declared payload: its start + 8 + its
\* payload_len is at most the end of the parent's child region.
C22_ChildrenInsideParent == EagerChildrenInside /\ LazyChildrenInside

---------------------------------------------------------------------------
(* The errors of the eager iterator *)

\* C23: an Err item of the eager iterator is ChunkTooSmall only when fewer
\* than 8 bytes remained in the child region where its header was expected;
\* when a whole header was there (and so declared more payload than the
\* region holds) the Err is PayloadLenMismatch.
C23_LengthErrorIsMismatch ==
    \A i \in 1..Len(yielded) :
        yielded[i].res = "err" =>
            IF Len(it.data) - yielded[i].at < 8
            THEN yielded[i].err = "ChunkTooSmall"
            ELSE yielded[i].err = "PayloadLenMismatch"

---------------------------------------------------------------------------
(* The bounds of the stream reader's iterators: src/src/lib.rs 279-306 *)

\* Chunk::read(&mut cursor, pos) of the chunk last written, then chunk.iter()
\* or chunk.iter_no_type(); first is the iterator as made, it the iterator
\* after the calls of next so far, items what they returned
StreamIter ==
    /\ wret.n > 0 /\ wret.ok
    /\ sit = NoStreamIter
    /\ LET r == Chunk_read(stream, wret.at)
       IN  /\ r.ok
           /\ \E typed \in BOOLEAN :
                LET iter == IF typed THEN Chunk_iter(r.chunk)
                            ELSE Chunk_iter_no_type(r.chunk)
                IN  sit' = [res |-> "ok", chunk |-> r.chunk, typed |-> typed,
                            first |-> iter, it |-> iter, items |-> <<>>,
                            done |-> FALSE]
    /\ UNCHANGED <<conv, dconv, stack, below, sw, off>>
    /\ UNCHANGED builderVars /\ UNCHANGED writerVars /\ UNCHANGED eagerVars
    /\ UNCHANGED lazyVars /\ UNCHANGED calcVars

\* iter.next()
StreamIterNext ==
    /\ sit.res = "ok" /\ ~sit.done
    /\ LET r == ChunkIter_next(sit.it, stream)
       IN  sit' = [sit EXCEPT !.it = r.it,
                              !.items = IF r.some THEN Append(@, r.chunk) ELSE @,
                              !.done = ~r.some]
    /\ UNCHANGED <<conv, dconv, stack, below, sw, off>>
    /\ UNCHANGED builderVars /\ UNCHANGED writerVars /\ UNCHANGED eagerVars
    /\ UNCHANGED lazyVars /\ UNCHANGED calcVars

NextStreamIter ==
    \/ NextStream
    \/ StreamIter
    \/ StreamIterNext

SpecStreamIter == InitStream /\ [][NextStreamIter]_vars

\* C24: the iterator Chunk::iter makes starts at pos + 12 and the one
\* Chunk::iter_no_type makes starts at pos + 8, and both end at
\* pos + 8 + len, the end of the chunk's payload (for a typed container
\* pos + 12 + len - 4, the bounds of ChunkDisk::iter).
C24_StreamIterBounds ==
    sit.res = "ok" =>
        /\ sit.first.cur = sit.chunk.pos + (IF sit.typed THEN 12 ELSE 8)
        /\ sit.first.end = sit.chunk.pos + 8 + sit.chunk.len

---------------------------------------------------------------------------
(* Iteration of nested containers: the caller returns to the parent's       *)
(* iterator after iterating a child                                        *)

\* The iterator of the parent as the caller finds it after using the
\* iterator of a child: each ChunkRamIter owns its cursor and its flag
outer_iter_shared_flag(outer, inner) ==
    [outer EXCEPT !.error_occurred = @ \/ inner.error_occurred]

outer_iter(outer, inner) == outer

\* The index (from 1) of the first byte of the k-th child of the root in the
\* bytes written, and of the first byte after it
ChildFirst(t, k) ==
    13 + SumSeq([j \in 1..(k - 1) |-> Len(Written(t.children[j]))])
ChildEnd(t, k) == ChildFirst(t, k) + Len(Written(t.children[k]))

\* The container below the root whose payload holds the byte of index p, or 0
InsideOf(t, p) ==
    LET ks == {k \in 1..Len(t.children) :
                  /\ t.children[k].kind # "RawData"
                  /\ p >= ChildFirst(t, k) + 8
                  /\ p < ChildEnd(t, k)}
    IN  IF ks = {} THEN 0 ELSE CHOOSE k \in ks : TRUE

\* The values written over one byte of the file
PokeValues == {0, 100}

\* Damage: one byte after the root's header and form type set to another value
PokeMutations(bytes, t) ==
    {[hdr |-> SubSeq(bytes, 1, pv[1] - 1) \o <<pv[2]>>, len |-> Len(bytes),
      fix |-> FALSE, of |-> Len(bytes), inside |-> InsideOf(t, pv[1])] :
        pv \in {x \in (13..Len(bytes)) \X PokeValues : bytes[x[1]] # x[2]}}

\* Damage: the file cut inside the last chunk, the root's length re-stamped
CutMutations(bytes) ==
    {[hdr |-> <<>>, len |-> n, fix |-> TRUE, of |-> Len(bytes), inside |-> 0] :
        n \in 12..(Len(bytes) - 1)}

InitNested ==
    /\ InitBuilderVars /\ InitWriterVars
    /\ tree \in RootTrees
    /\ \E bytes \in {Written(tree)} :
            /\ mut \in PokeMutations(bytes, tree) \cup CutMutations(bytes)
            /\ file = Mutate(bytes, mut)
    /\ pc = "start"
    /\ FreshEagerVars
    /\ IdleLazyVars
    /\ InitCalcVars /\ InitExtraVars

\* The caller is done with the child and goes back to the iterator that
\* returned it
Ascend ==
    /\ pc \in {"chunk", "iter"}
    /\ stack # <<>>
    /\ LET top == stack[Len(stack)]
       IN  /\ cur' = top.cur
           /\ curTree' = top.curTree
           /\ it' = outer_iter(top.it, it)
           /\ item' = top.item
           /\ yielded' = top.yielded
    /\ stack' = SubSeq(stack, 1, Len(stack) - 1)
    /\ path' = SubSeq(path, 1, Len(path) - 1)
    /\ depth' = depth - 1
    /\ below' = (below \/ (pc = "iter" /\ it.error_occurred))
    /\ pc' = "iter"
    /\ UNCHANGED <<file, tree, mut, ram, raw>>
    /\ UNCHANGED <<conv, dconv, sit, sw, off>>
    /\ UNCHANGED builderVars /\ UNCHANGED writerVars /\ UNCHANGED lazyVars
    /\ UNCHANGED calcVars

NextNested ==
    \/ NextEager
    \/ Ascend

SpecNested == InitNested /\ [][NextNested]_vars

\* C25: on a buffer accepted as the root chunk, whatever the bytes after the
\* root header, iter() and next() never panic, at any depth: a panic can
\* only come from get_raw_child.
C25_IterationNeverPanics == pc = "panic" => raw.res = "panic"

\* The children of the root as the root's iterator yielded them: all Ok,
\* with the identifiers and lengths they were written with
RootChildrenYielded ==
    /\ Len(yielded) <= Len(tree.children)
    /\ \A i \in 1..Len(yielded) :
          /\ yielded[i].res = "ok"
          /\ ChunkRam_id(yielded[i].data) = tree.children[i].id
          /\ Len(yielded[i].data) + (Len(yielded[i].data) % 2)
                = Len(Written(tree.children[i]))
    /\ item.res = "none" => Len(yielded) = Len(tree.children)


\* C28: when all the damage of a file lies in the payload of one container
\* below the root, the root's iterator yields every child of the root as Ok,
\* the damaged container and the siblings after it included, and then None:
\* the Err that ends the iteration of the damaged container, or of a
\* container inside it, reaches no iterator above.
C28_FailureStaysLocal ==
    (mut.inside # 0 /\ depth = 0 /\ pc = "iter") => RootChildrenYielded

\* The caller iterated the damaged container, first of two children, to an
\* Err, went back to the root's iterator and iterated it to its end
C28_Witness ==
    /\ mut.inside = 1 /\ below /\ depth = 0 /\ pc = "iter"
    /\ item.res = "none"
    /\ Len(yielded) = 2
    /\ Len(tree.children) = 2

---------------------------------------------------------------------------
(* The 32-bit offsets of the lazy reader: src/src/lazy/riff.rs 125-173.    *)
(* Positions and lengths are pairs of 16-bit limbs, as for the sizes of    *)
(* the builder; the file is known only by what from_path reads from it.    *)

\* Most calls of next() in one run
MaxOffCalls == 3

\* a < b on lengths
WLess(a, b) == a.hi < b.hi \/ (a.hi = b.hi /\ a.lo < b.lo)

\* a - b on u32, a and b below 2^32: an underflow panics in a build with
\* overflow checks (debug) and wraps in one without (release)
u32_sub(a, b, build) ==
    LET lo == a.lo - b.lo
        hi == a.hi - b.hi - (IF lo < 0 THEN 1 ELSE 0)
    IN  IF ~WLess(a, b) THEN [ok |-> TRUE, val |-> W(hi, lo % Limb)]
        ELSE IF build = "debug" THEN [ok |-> FALSE, val |-> W(0, 0)]
        ELSE [ok |-> TRUE, val |-> W(hi + Limb, lo % Limb)]

\* a + b + c on u32, left to right
u32_add3(a, b, c, build) ==
    LET ab == u32_add(a, b, build)
    IN  IF ~ab.ok THEN ab ELSE u32_add(ab.val, c, build)

\* ChunkDisk::iter on a chunk known by its numbers (typed: its id is RIFF or
\* LIST); ok is FALSE when an addition panics
ChunkDisk_iter_u32(chunk, build) ==
    IF chunk.typed
    THEN LET cursor == u32_add(chunk.pos, W(0, 12), build)
             sum == u32_add3(chunk.pos, W(0, 12), chunk.payload_len, build)
             cursor_end == IF sum.ok THEN u32_sub(sum.val, W(0, 4), build) ELSE sum
         IN  [ok |-> cursor.ok /\ cursor_end.ok,
              it |-> ChunkDiskIter(cursor.val, cursor_end.val, FALSE)]
    ELSE LET cursor == u32_add(chunk.pos, W(0, 8), build)
             cursor_end == u32_add3(chunk.pos, W(0, 8), chunk.payload_len, build)
         IN  [ok |-> cursor.ok /\ cursor_end.ok,
              it |-> ChunkDiskIter(cursor.val, cursor_end.val, FALSE)]

\* The bounds ChunkDisk::iter is to compute, without a bound on the numbers
iter_exact(chunk) ==
    IF chunk.typed
    THEN [cursor |-> WAdd(chunk.pos, W(0, 12)),
          cursor_end |-> WAdd(WAdd(chunk.pos, W(0, 8)), chunk.payload_len)]
    ELSE [cursor |-> WAdd(chunk.pos, W(0, 8)),
          cursor_end |-> WAdd(WAdd(chunk.pos, W(0, 8)), chunk.payload_len)]

\* ChunkDiskIter::next, given what from_path finds at the cursor: hdr.ok and
\* the payload_len of the header read; res is "none", "ok", "err" or "panic"
ChunkDiskIter_next_u32(self, hdr, build) ==
    IF self.error_occurred \/ ~WLess(self.cursor, self.cursor_end)
    THEN [res |-> "none", it |-> self]
    ELSE IF ~hdr.ok
    THEN [res |-> "err", it |-> [self EXCEPT !.error_occurred = TRUE]]
    ELSE LET sum == u32_add3(self.cursor, W(0, 8), hdr.payload_len, build)
             cursor == IF sum.ok
                       THEN u32_add(sum.val, W(0, hdr.payload_len.lo % 2), build)
                       ELSE sum
         IN  IF cursor.ok THEN [res |-> "ok", it |-> [self EXCEPT !.cursor = cursor.val]]
             ELSE [res |-> "panic", it |-> self]

\* The cursor next() is to leave after a chunk of payload_len at cursor
next_exact(cursor, payload_len) ==
    WAdd(WAdd(WAdd(cursor, W(0, 8)), payload_len), W(0, payload_len.lo % 2))

\* The payload lengths of the headers: 0, 1, 4, 12, 2^32 - 8, 2^32 - 1
OffLens ==
    {W(0, 0), W(0, 1), W(0, 4), W(0, 12), W(Limb - 1, Limb - 8), W(Limb - 1, Limb - 1)}

\* The positions of the chunks: 0, 12, 2^32 - 16
OffPositions == {W(0, 0), W(0, 12), W(Limb - 1, Limb - 16)}

\* What from_path finds where the cursor is: no 8 bytes, or a header
OffHeaders ==
    {[ok |-> FALSE, payload_len |-> W(0, 0)]}
    \cup {[ok |-> TRUE, payload_len |-> l] : l \in OffLens}

NoOffIter == ChunkDiskIter(W(0, 0), W(0, 0), FALSE)

InitOffsets ==
    /\ InitBuilderVars /\ InitWriterVars /\ IdleEagerVars /\ IdleLazyVars /\ InitCalcVars
    /\ conv = NoContent /\ dconv = NoContent /\ stack = <<>> /\ below = FALSE
    /\ sit = NoStreamIter /\ sw = NoSizedWrite
    /\ \E build \in {"debug", "release"}, pos \in OffPositions, len \in OffLens,
          typed \in BOOLEAN :
          off = [res |-> "chunk", build |-> build, op |-> "",
                 chunk |-> [pos |-> pos, payload_len |-> len, typed |-> typed],
                 it |-> NoOffIter,
                 want |-> [cursor |-> W(0, 0), cursor_end |-> W(0, 0)],
                 last |-> "", at |-> W(0, 0), n |-> 0]

\* chunk.iter()?
OffIter ==
    /\ off.res = "chunk"
    /\ LET r == ChunkDisk_iter_u32(off.chunk, off.build)
       IN  off' = [off EXCEPT !.res = IF r.ok THEN "iter" ELSE "panic",
                              !.op = "iter",
                              !.it = IF r.ok THEN r.it ELSE NoOffIter,
                              !.want = iter_exact(off.chunk)]
    /\ UNCHANGED <<conv, dconv, stack, below, sit, sw>>
    /\ UNCHANGED builderVars /\ UNCHANGED writerVars /\ UNCHANGED eagerVars
    /\ UNCHANGED lazyVars /\ UNCHANGED calcVars

\* iter.next(), the file holding hdr at the cursor
OffNext(hdr) ==
    /\ off.res = "iter" /\ off.n < MaxOffCalls
    /\ LET r == ChunkDiskIter_next_u32(off.it, hdr, off.build)
       IN  off' = [off EXCEPT !.res = IF r.res = "panic" THEN "panic" ELSE "iter",
                              !.op = "next",
                              !.last = r.res,
                              !.at = off.it.cursor,
                              !.it = r.it,
                              !.want = IF r.res \in {"ok", "panic"}
                                       THEN [cursor |-> next_exact(off.it.cursor,
                                                                   hdr.payload_len),
                                             cursor_end |-> off.it.cursor_end]
                                       ELSE [cursor |-> off.it.cursor,
                                             cursor_end |-> off.it.cursor_end],
                              !.n = off.n + 1]
    /\ UNCHANGED <<conv, dconv, stack, below, sit, sw>>
    /\ UNCHANGED builderVars /\ UNCHANGED writerVars /\ UNCHANGED eagerVars
    /\ UNCHANGED lazyVars /\ UNCHANGED calcVars

NextOffsets ==
    \/ OffIter
    \/ \E hdr \in OffHeaders : OffNext(hdr)

SpecOffsets == InitOffsets /\ [][NextOffsets]_vars

\* C26: every next() that returns an Ok chunk leaves the cursor at least 8
\* further than it was, so that no chunk is yielded twice and the children
\* of any input are finitely many.
C26_OkStepAdvances ==
    (off.op = "next" /\ off.last = "ok") =>
        ~WLess(off.it.cursor, WAdd(off.at, W(0, 8)))

\* C27: for every position and payload_len below 2^32, ChunkDisk::iter and
\* ChunkDiskIter::next leave the exact offsets (pos + 12 or pos + 8, pos + 8
\* + payload_len, cursor + 8 + payload_len + payload_len mod 2): no addition
\* wraps and none aborts the program.
C27_OffsetsExact ==
    /\ off.res # "panic"
    /\ off.op \in {"iter", "next"} =>
          /\ off.it.cursor = off.want.cursor
          /\ off.it.cursor_end = off.want.cursor_end

---------------------------------------------------------------------------
(* The value ChunkContents::write returns: src/src/lib.rs 88-157 *)

\* The length field of the chunk last written, read from the stream
WrittenLen == from_le_bytes(Slice(stream, wret.at + 4, wret.at + 8))

\* What the writes of the children of the contents last written return
ChildReturns ==
    [i \in 1..Len(wret.contents.children) |->
        ChunkContents_write(wret.contents.children[i], EmptyCursor).ret]

---------------------------------------------------------------------------
(* The sizes of ChunkContents::write: src/src/lib.rs 88-157.  The data of  *)
(* a leaf is known by its length, a pair of 16-bit limbs.                  *)

\* What a sized write returns: res is "ok", "err" (Data too big) or "panic";
\* ret the value returned, field the length field written, written the
\* number of bytes written
SizedWriteResult(res, ret, field, written) ==
    [res |-> res, ret |-> ret, field |-> field, written |-> written]

\* the pad of a length: len % 2
WPad(len) == W(0, len.lo % 2)

\* ChunkContents::write of RawData(id, data), data of n bytes
sized_write_raw(n, build) ==
    IF ~FitsU32(n)
    THEN SizedWriteResult("err", W(0, 0), W(0, 0), W(0, 0))
    ELSE LET len == n
             sum == u32_add3(W(0, 8), len, WPad(len), build)
             written == WAdd(WAdd(W(0, 8), n), WPad(len))
         IN  IF sum.ok THEN SizedWriteResult("ok", sum.val, len, written)
             ELSE SizedWriteResult("panic", W(0, 0), len, written)

\* the loop "for child in children { total_len = total_len + child.write(writer)? }"
\* over leaves of the given lengths, from the i-th on; total_len is a u64
RECURSIVE sized_write_children(_, _, _, _, _)
sized_write_children(lens, i, total_len, written, build) ==
    IF i > Len(lens) THEN SizedWriteResult("ok", total_len, total_len, written)
    ELSE LET r == sized_write_raw(lens[i], build)
         IN  IF r.res # "ok" THEN SizedWriteResult(r.res, W(0, 0), W(0, 0), written)
             ELSE sized_write_children(lens, i + 1, WAdd(total_len, r.ret),
                                       WAdd(written, r.written), build)

\* ChunkContents::write of Children (typed) or ChildrenNoType over leaves of
\* the given lengths
sized_write_list(lens, typed, build) ==
    LET start == IF typed THEN W(0, 4) ELSE W(0, 0)
        r == sized_write_children(lens, 1, start, start, build)
    IN  IF r.res # "ok" THEN r
        ELSE IF ~FitsU32(r.ret)
        THEN SizedWriteResult("err", W(0, 0), W(0, 0), r.written)
        ELSE SizedWriteResult("ok", WAdd(WAdd(W(0, 8), r.ret), WPad(r.ret)),
                              r.ret, WAdd(W(0, 8), r.written))

\* The lengths of the data written: 0, 1, 2, 2^32 - 10, 2^32 - 9, 2^32 - 8,
\* 2^32 - 1, 2^32
WriteLens ==
    {W(0, 0), W(0, 1), W(0, 2), W(Limb - 1, Limb - 10), W(Limb - 1, Limb - 9),
     W(Limb - 1, Limb - 8), W(Limb - 1, Limb - 1), W(Limb, 0)}

\* The contents written: a leaf, or a container of at most two leaves
WriteShapes ==
    {[kind |-> "RawData", lens |-> <<n>>] : n \in WriteLens}
    \cup {[kind |-> k, lens |-> <<>>] : k \in {"Children", "ChildrenNoType"}}
    \cup {[kind |-> k, lens |-> <<n>>] :
            k \in {"Children", "ChildrenNoType"}, n \in WriteLens}
    \cup {[kind |-> k, lens |-> <<n, m>>] :
            k \in {"Children", "ChildrenNoType"}, n \in WriteLens, m \in WriteLens}

\* The content length of a shape: the data length of a leaf, the bytes
\* after the length field of a container (form type and children)
RECURSIVE LeavesSpan(_, _)
LeavesSpan(lens, i) ==
    IF i > Len(lens) THEN W(0, 0)
    ELSE WAdd(WAdd(WAdd(W(0, 8), lens[i]), WPad(lens[i])), LeavesSpan(lens, i + 1))

ContentLen(shape) ==
    IF shape.kind = "RawData" THEN shape.lens[1]
    ELSE WAdd(IF shape.kind = "Children" THEN W(0, 4) ELSE W(0, 0),
              LeavesSpan(shape.lens, 1))

InitSizedWrite ==
    /\ InitBuilderVars /\ InitWriterVars /\ IdleEagerVars /\ IdleLazyVars /\ InitCalcVars
    /\ conv = NoContent /\ dconv = NoContent /\ stack = <<>> /\ below = FALSE
    /\ sit = NoStreamIter /\ off = NoOffsets
    /\ \E build \in {"debug", "release"} :
          sw = [res |-> "", build |-> build,
                shape |-> [kind |-> "", lens |-> <<>>],
                ret |-> W(0, 0), field |-> W(0, 0), written |-> W(0, 0)]

\* contents.write(&mut writer), contents of the given shape
SizedWrite(shape) ==
    /\ sw.res # "panic"
    /\ LET r == IF shape.kind = "RawData"
                THEN sized_write_raw(shape.lens[1], sw.build)
                ELSE sized_write_list(shape.lens, shape.kind = "Children", sw.build)
       IN  sw' = [sw EXCEPT !.res = r.res, !.shape = shape, !.ret = r.ret,
                            !.field = r.field, !.written = r.written]
    /\ UNCHANGED <<conv, dconv, stack, below, sit, off>>
    /\ UNCHANGED builderVars /\ UNCHANGED writerVars /\ UNCHANGED eagerVars
    /\ UNCHANGED lazyVars /\ UNCHANGED calcVars

NextSizedWrite == \E shape \in WriteShapes : SizedWrite(shape)

SpecSizedWrite == InitSizedWrite /\ [][NextSizedWrite]_vars

\* C30: write fails with "Data too big" exactly when the data length of a
\* leaf or the total content length of a container exceeds 2^32 - 1; for
\* every smaller length it succeeds, its 32-bit additions do not overflow,
\* and it returns 8 + the length + (the length mod 2).
C30_TooBigExactly ==
    sw.res # "" =>
        /\ sw.res # "panic"
        /\ sw.res = "err" <=> ~FitsU32(ContentLen(sw.shape))
        /\ sw.res = "ok" =>
              sw.ret = WAdd(WAdd(W(0, 8), ContentLen(sw.shape)),
                            WPad(ContentLen(sw.shape)))

============================================================================
